---- MODULE Spec2Model ----
(***************************************************************************)
(* Model of src/nxlog_analyzer.py: the block parser                        *)
(* (NXLogConfigAnalyzer.parse_config_file), the batch loop                 *)
(* (NXLogConfigAnalyzer.process_directory) and the flow graph builder      *)
(* (FlowMapper).                                                           *)
(*                                                                         *)
(* Python strings are sequences of one-character strings, so that the      *)
(* regular expressions, str.split, str.strip and str.join of the source    *)
(* are computed character by character.  Python's None is the tuple        *)
(* <<"None">>, which is no string (its element is not one character).      *)
(* A Python dict is a sequence of [k, v] records in insertion order.       *)
(***************************************************************************)
EXTENDS Integers, Sequences, FiniteSets, TLC

VARIABLES
    lines,                  \* parse_config_file: content.split('\n') after comment removal
    i,                      \* parse_config_file: cursor (0-based, as in the source)
    current_section,        \* parse_config_file: open tag's type, or None
    current_section_name,   \* parse_config_file: open tag's name, or None
    section_module,         \* parse_config_file: Module value of the open section, or None
    section_details,        \* parse_config_file: attribute accumulator (dict)
    file_data,              \* parse_config_file: emitted parameter records
    pc,                     \* position: "parse", "done" (parser), "api" (FlowMapper used directly), "batch", "finished" (process_directory)
    routes,                 \* FlowMapper.routes (dict)
    sections,               \* FlowMapper.sections (dict)
    sections_info,          \* FlowMapper.sections_info (dict)
    flows,                  \* FlowMapper.flows (list)
    unconnected_sections,   \* FlowMapper.unconnected_sections (set)
    graphviz_content,       \* FlowMapper.graphviz_content
    returned,               \* the values returned by the successive analyze_flows calls
    expr_arg,               \* argument of the last _parse_path_expression call, or None
    expr_pairs,             \* value returned by the last _parse_path_expression call
    config_files,           \* process_directory: the files of the directory, in glob order
    file_no,                \* process_directory: how many files the loop has taken
    files_data,             \* NXLogConfigAnalyzer.files_data (dict, by file stem)
    flow_mappers,           \* NXLogConfigAnalyzer.flow_mappers (dict, by file stem)
    config_data,            \* NXLogConfigAnalyzer.config_data (list)
    reported                \* the file count process_directory prints at its end, or None

vars == <<lines, i, current_section, current_section_name, section_module,
          section_details, file_data, pc, routes, sections, sections_info,
          flows, unconnected_sections, graphviz_content, returned,
          expr_arg, expr_pairs, config_files, file_no, files_data, flow_mappers,
          config_data, reported>>

parserVars == <<lines, i, current_section, current_section_name,
                section_module, section_details, file_data>>

mapperVars == <<routes, sections, sections_info, flows, unconnected_sections,
                graphviz_content, returned>>

exprVars == <<expr_arg, expr_pairs>>

batchVars == <<config_files, file_no, files_data, flow_mappers, config_data, reported>>

(***************************************************************************)
(* Python values                                                           *)
(***************************************************************************)
None == <<"None">>

\* Python truthiness of an Optional[str]
Truthy(x) == x # None /\ x # <<>>

UpperChars == {"A","B","C","D","E","F","G","H","I","J","K","L","M",
               "N","O","P","Q","R","S","T","U","V","W","X","Y","Z"}

LowerChars == {"a","b","c","d","e","f","g","h","i","j","k","l","m",
               "n","o","p","q","r","s","t","u","v","w","x","y","z"}

DigitChars == {"0","1","2","3","4","5","6","7","8","9"}

\* \w of the re module
IsWord(c) == c \in UpperChars \cup LowerChars \cup DigitChars \cup {"_"}

\* \s of the re module, str.strip's whitespace
IsSpace(c) == c \in {" ", "\t", "\r"}

LowerOf == [c \in UpperChars |->
    CASE c = "A" -> "a" [] c = "B" -> "b" [] c = "C" -> "c" [] c = "D" -> "d"
      [] c = "E" -> "e" [] c = "F" -> "f" [] c = "G" -> "g" [] c = "H" -> "h"
      [] c = "I" -> "i" [] c = "J" -> "j" [] c = "K" -> "k" [] c = "L" -> "l"
      [] c = "M" -> "m" [] c = "N" -> "n" [] c = "O" -> "o" [] c = "P" -> "p"
      [] c = "Q" -> "q" [] c = "R" -> "r" [] c = "S" -> "s" [] c = "T" -> "t"
      [] c = "U" -> "u" [] c = "V" -> "v" [] c = "W" -> "w" [] c = "X" -> "x"
      [] c = "Y" -> "y" [] c = "Z" -> "z"]

\* str.lower
Lower(s) == [k \in 1..Len(s) |-> IF s[k] \in UpperChars THEN LowerOf[s[k]] ELSE s[k]]

\* s[a-1:b] of Python for 1 <= a, as a sequence (empty when a > b)
Slice(s, a, b) == IF a > b THEN <<>> ELSE SubSeq(s, a, b)

\* str.startswith
StartsWith(s, p) == Len(s) >= Len(p) /\ Slice(s, 1, Len(p)) = p

\* str.endswith
EndsWith(s, p) == Len(s) >= Len(p) /\ Slice(s, Len(s) - Len(p) + 1, Len(s)) = p

\* first position >= from whose character fails test class; Len(s)+1 if none
RECURSIVE WordEnd(_, _)
WordEnd(s, from) ==
    IF from > Len(s) \/ ~IsWord(s[from]) THEN from ELSE WordEnd(s, from + 1)

RECURSIVE SpaceEnd(_, _)
SpaceEnd(s, from) ==
    IF from > Len(s) \/ ~IsSpace(s[from]) THEN from ELSE SpaceEnd(s, from + 1)

\* first position >= from holding character c; Len(s)+1 if none
RECURSIVE FindChar(_, _, _)
FindChar(s, c, from) ==
    IF from > Len(s) \/ s[from] = c THEN from ELSE FindChar(s, c, from + 1)

\* str.strip
RECURSIVE LStrip(_)
LStrip(s) == IF s # <<>> /\ IsSpace(Head(s)) THEN LStrip(Tail(s)) ELSE s

RECURSIVE RStrip(_)
RStrip(s) ==
    IF s # <<>> /\ IsSpace(s[Len(s)]) THEN RStrip(Slice(s, 1, Len(s) - 1)) ELSE s

Strip(s) == RStrip(LStrip(s))

\* str.split(sep): the pieces between the non-overlapping occurrences of sep,
\* found left to right
RECURSIVE SplitFrom(_, _, _, _)
SplitFrom(s, sep, start, k) ==
    IF k + Len(sep) - 1 > Len(s)
    THEN <<Slice(s, start, Len(s))>>
    ELSE IF Slice(s, k, k + Len(sep) - 1) = sep
         THEN <<Slice(s, start, k - 1)>> \o SplitFrom(s, sep, k + Len(sep), k + Len(sep))
         ELSE SplitFrom(s, sep, start, k + 1)

Split(s, sep) == SplitFrom(s, sep, 1, 1)

\* sep.join(parts)
RECURSIVE Join(_, _)
Join(parts, sep) ==
    IF parts = <<>> THEN <<>>
    ELSE IF Len(parts) = 1 THEN parts[1]
    ELSE parts[1] \o sep \o Join(Tail(parts), sep)

\* sep in s
Contains(s, sep) == Len(Split(s, sep)) > 1

\* [f(x) for x in xs]
StripAll(xs) == [k \in 1..Len(xs) |-> Strip(xs[k])]

(***************************************************************************)
(* dict                                                                    *)
(***************************************************************************)
DictKeys(d) == {d[k].k : k \in 1..Len(d)}

DictHas(d, key) == key \in DictKeys(d)

DictIndex(d, key) == CHOOSE k \in 1..Len(d) : d[k].k = key

DictGet(d, key) == d[DictIndex(d, key)].v

\* d.get(key): None when the key is absent
DictGetOrNone(d, key) == IF DictHas(d, key) THEN DictGet(d, key) ELSE None

\* DictPut moving an existing key to the last place
DictPutLast(d, key, val) ==
    LET Other(e) == e.k # key
    IN  Append(SelectSeq(d, Other), [k |-> key, v |-> val])

\* d[key] = val: a new key goes last, an existing key keeps its place
DictPut(d, key, val) ==
    IF DictHas(d, key)
    THEN [d EXCEPT ![DictIndex(d, key)] = [k |-> key, v |-> val]]
    ELSE Append(d, [k |-> key, v |-> val])

(***************************************************************************)
(* String literals of the source                                           *)
(***************************************************************************)
sArrow == <<"=",">">>

sComma == <<",">>

sPipe == <<" ","|"," ">>

sNewline == <<"\n">>

sExecLower == <<"e","x","e","c">>

sExecOpen == <<"<","e","x","e","c",">">>

sExecClose == <<"<","/","e","x","e","c",">">>

sExec == <<"E","x","e","c">>

sModule == <<"M","o","d","u","l","e">>

sRoute == <<"R","o","u","t","e">>

sPath == <<"P","a","t","h">>

sPriority == <<"P","r","i","o","r","i","t","y">>

sCondition == <<"C","o","n","d","i","t","i","o","n">>

sUnknown == <<"U","n","k","n","o","w","n">>

sNA == <<"N","/","A">>

sTotalRoutes == <<"t","o","t","a","l","_","r","o","u","t","e","s">>

sTotalSections == <<"t","o","t","a","l","_","s","e","c","t","i","o","n","s">>

sTotalFlows == <<"t","o","t","a","l","_","f","l","o","w","s">>

sUnconnected == <<"u","n","c","o","n","n","e","c","t","e","d","_","s","e","c","t","i","o","n","s">>

sInput == <<"I","n","p","u","t">>

sOutput == <<"O","u","t","p","u","t">>

sProcessor == <<"P","r","o","c","e","s","s","o","r">>

sExtension == <<"E","x","t","e","n","s","i","o","n">>

sEllipsis == <<".",".",".">>

sDQuote == <<"\"">>

sSQuote == <<"'">>

sNlParen == <<"\\","n","(">>

sParen == <<")">>

sNl == <<"\\","n">>

(***************************************************************************)
(* FlowMapper                                                              *)
(***************************************************************************)

\* _parse_route_path: parts = [part.strip() for part in path.split('=>')]
RouteParts(path) == StripAll(Split(path, sArrow))

\* [x.strip() for x in stage.split(',')]
StageNames(stage) == StripAll(Split(stage, sComma))

\* _parse_route_path, "Premier element = inputs": set only when parts[0] is not empty
RouteInputs(parts) ==
    IF parts[1] # <<>> THEN StageNames(parts[1]) ELSE <<>>

\* _parse_route_path, "Dernier element = outputs"
RouteOutputs(parts) ==
    IF Len(parts) > 1 /\ parts[Len(parts)] # <<>>
    THEN StageNames(parts[Len(parts)]) ELSE <<>>

\* _parse_route_path, "Elements intermediaires = processors": for i in range(1, len(parts) - 1)
RECURSIVE RouteProcessorsFrom(_, _)
RouteProcessorsFrom(parts, k) ==
    IF k > Len(parts) - 1 THEN <<>>
    ELSE (IF parts[k] # <<>> THEN StageNames(parts[k]) ELSE <<>>)
         \o RouteProcessorsFrom(parts, k + 1)

\* RouteProcessors with the loop one long: for i in range(1, len(parts))
RouteProcessorsToEnd(parts) ==
    IF Len(parts) > 2 THEN RouteProcessorsFrom(parts \o <<(<<>>)>>, 2) ELSE <<>>

RouteProcessors(parts) ==
    IF Len(parts) > 2 THEN RouteProcessorsFrom(parts, 2) ELSE <<>>

\* _parse_route_path(route_name, path) applied to the route's entry
ParseRoutePath(entry, path) ==
    IF Contains(path, sArrow)
    THEN LET parts == RouteParts(path)
         IN  [entry EXCEPT !.inputs = RouteInputs(parts),
                           !.outputs = RouteOutputs(parts),
                           !.processors = RouteProcessors(parts)]
    ELSE entry

\* add_route(route_name, path, priority, condition) on the routes dict
AddRouteTo(rts, route_name, path, priority, condition) ==
    DictPut(rts, route_name,
            ParseRoutePath([path |-> path, priority |-> priority,
                            condition |-> condition, inputs |-> <<>>,
                            outputs |-> <<>>, processors |-> <<>>], path))

\* add_section: the entry of self.sections
SectionEntry(section_type, module, details) ==
    [type |-> section_type, module |-> module, details |-> details,
     connected_routes |-> <<>>]

\* add_section: the entry of self.sections_info ('module': module or '')
SectionInfoEntry(section_type, module, details) ==
    [type |-> section_type, module |-> IF Truthy(module) THEN module ELSE <<>>,
     details |-> details]

\* analyze_flows: all_components = inputs + processors + outputs
AllComponents(route_info) ==
    route_info.inputs \o route_info.processors \o route_info.outputs

\* TypeOf with the default of the second get forgotten
TypeOfNoDefault(secs, name) == IF DictHas(secs, name) THEN DictGet(secs, name).type ELSE None

\* self.sections.get(name, {}).get('type', 'Unknown')
TypeOf(secs, name) == IF DictHas(secs, name) THEN DictGet(secs, name).type ELSE sUnknown

\* self.sections.get(name, {}).get('module', 'Unknown')
ModuleOf(secs, name) == IF DictHas(secs, name) THEN DictGet(secs, name).module ELSE sUnknown

\* x or 'N/A'
OrNA(x) == IF Truthy(x) THEN x ELSE sNA

\* analyze_flows: the flow built for all_components[i], all_components[i + 1] (k = i + 1)
FlowAt(secs, route_name, route_info, comps, k) ==
    [route |-> route_name,
     source |-> comps[k],
     target |-> comps[k + 1],
     destination |-> comps[k + 1],
     source_type |-> TypeOf(secs, comps[k]),
     target_type |-> TypeOf(secs, comps[k + 1]),
     source_module |-> ModuleOf(secs, comps[k]),
     target_module |-> ModuleOf(secs, comps[k + 1]),
     priority |-> OrNA(route_info.priority),
     condition |-> OrNA(route_info.condition)]

\* RouteFlows with the loop one short: for i in range(len(all_components) - 2)
RouteFlowsSkipLast(secs, route_name, route_info) ==
    LET comps == AllComponents(route_info)
    IN  [k \in 1..(IF Len(comps) > 1 THEN Len(comps) - 2 ELSE 0) |->
            FlowAt(secs, route_name, route_info, comps, k)]

\* analyze_flows: for i in range(len(all_components) - 1), for one route
RouteFlows(secs, route_name, route_info) ==
    LET comps == AllComponents(route_info)
    IN  [k \in 1..(IF Len(comps) > 0 THEN Len(comps) - 1 ELSE 0) |->
            FlowAt(secs, route_name, route_info, comps, k)]

\* analyze_flows: the loop over self.routes.items(), appending to the flow list fl
RECURSIVE AppendRouteFlows(_, _, _, _)
AppendRouteFlows(fl, secs, rts, k) ==
    IF k > Len(rts) THEN fl
    ELSE AppendRouteFlows(fl \o RouteFlows(secs, rts[k].k, rts[k].v), secs, rts, k + 1)

\* ResetFlows with the reset forgotten
ResetFlowsKeep(fl) == fl

\* analyze_flows: self.flows = [] (its argument is the list held before the call)
ResetFlows(fl) == <<>>

\* analyze_flows: connected_routes.append(route_name) for each component that is a section
RECURSIVE MarkComponents(_, _, _, _)
MarkComponents(secs, route_name, comps, k) ==
    IF k > Len(comps) THEN secs
    ELSE MarkComponents(
            IF DictHas(secs, comps[k])
            THEN LET e == DictGet(secs, comps[k])
                 IN  DictPut(secs, comps[k],
                        [e EXCEPT !.connected_routes = Append(@, route_name)])
            ELSE secs,
            route_name, comps, k + 1)

RECURSIVE MarkRoutes(_, _, _)
MarkRoutes(secs, rts, k) ==
    IF k > Len(rts) THEN secs
    ELSE MarkRoutes(MarkComponents(secs, rts[k].k, AllComponents(rts[k].v), 1), rts, k + 1)

\* analyze_flows: connected_sections, the sources and targets of the flows
ConnectedSections(fl) ==
    {fl[k].source : k \in 1..Len(fl)} \cup {fl[k].target : k \in 1..Len(fl)}

\* Unconnected with the flow sources forgotten
UnconnectedTargetsOnly(info, fl) ==
    DictKeys(info) \ {fl[k].target : k \in 1..Len(fl)}

\* analyze_flows: set(self.sections_info.keys()) - connected_sections
Unconnected(info, fl) == DictKeys(info) \ ConnectedSections(fl)

(***************************************************************************)
(* _get_flow_stats                                                         *)
(***************************************************************************)

\* type_counts[section_type] = type_counts.get(section_type, 0) + 1, over sections_info.values()
RECURSIVE TypeCounts(_, _, _)
TypeCounts(info, counts, k) ==
    IF k > Len(info) THEN counts
    ELSE TypeCounts(info,
            DictPut(counts, info[k].v.type,
                    (IF DictHas(counts, info[k].v.type)
                     THEN DictGet(counts, info[k].v.type) ELSE 0) + 1),
            k + 1)

\* dict.update(other)
RECURSIVE DictUpdate(_, _, _)
DictUpdate(d, other, k) ==
    IF k > Len(other) THEN d
    ELSE DictUpdate(DictPut(d, other[k].k, other[k].v), other, k + 1)

\* the stats literal of _get_flow_stats
BaseStats(rts, info, fl, unconn) ==
    << [k |-> sTotalRoutes, v |-> Len(rts)],
       [k |-> sTotalSections, v |-> Len(info)],
       [k |-> sTotalFlows, v |-> Len(fl)],
       [k |-> sUnconnected, v |-> Cardinality(unconn)] >>

\* _get_flow_stats: stats.update(type_counts)
GetFlowStats(rts, info, fl, unconn) ==
    DictUpdate(BaseStats(rts, info, fl, unconn), TypeCounts(info, <<>>, 1), 1)

(***************************************************************************)
(* get_flow_summary                                                        *)
(***************************************************************************)

\* len([s for s in self.sections.values() if s['type'] == section_type])
CountOfType(secs, section_type) ==
    Cardinality({k \in 1..Len(secs) : secs[k].v.type = section_type})

\* get_flow_summary(): the summary dictionary
GetFlowSummary(rts, secs, fl) ==
    [total_routes |-> Len(rts),
     total_sections |-> Len(secs),
     total_flows |-> Len(fl),
     input_sections |-> CountOfType(secs, sInput),
     output_sections |-> CountOfType(secs, sOutput),
     processor_sections |-> CountOfType(secs, sProcessor),
     extension_sections |-> CountOfType(secs, sExtension),
     unconnected_sections |->
        Cardinality({k \in 1..Len(secs) : secs[k].v.connected_routes = <<>>})]

(***************************************************************************)
(* _generate_graphviz: dot_content as a sequence of records, one per       *)
(* appended line that depends on the graph (the fixed lines carry nothing) *)
(***************************************************************************)

\* colors: the type -> colour table
TypeColors ==
    << [k |-> sInput, v |-> "#E8F5E8"],
       [k |-> sOutput, v |-> "#FFE8E8"],
       [k |-> sProcessor, v |-> "#E8E8FF"],
       [k |-> sExtension, v |-> "#FFFFE8"],
       [k |-> sRoute, v |-> "#F0F0F0"] >>

\* colors.get(section_type, '#FFFFFF')
ColorOf(section_type) ==
    IF DictHas(TypeColors, section_type) THEN DictGet(TypeColors, section_type) ELSE "#FFFFFF"

\* route_colors
RouteColors == <<"#FF6B6B", "#4ECDC4", "#45B7D1", "#96CEB4", "#FFEAA7", "#DDA0DD">>

\* the length a condition is cut to in an edge label
CondMax == 30

\* label = f"{section_name}\\n({section_type})", plus f"\\n{module}" if module
NodeLabel(section_name, info) ==
    section_name \o sNlParen \o info.type \o sParen
        \o (IF info.module # <<>> THEN sNl \o info.module ELSE <<>>)

\* the node lines, over sections_info.items()
NodeLines(info, unconn) ==
    [k \in 1..Len(info) |->
        [kind |-> "node",
         name |-> info[k].k,
         label |-> NodeLabel(info[k].k, info[k].v),
         fillcolor |-> ColorOf(info[k].v.type),
         dashed |-> info[k].k \in unconn]]

\* short_condition = condition[:30] + "..." if len(condition) > 30 else condition
ShortCondition(condition) ==
    IF Len(condition) > CondMax THEN Slice(condition, 1, CondMax) \o sEllipsis
    ELSE condition

\* EdgeLines taking the next colour at every flow, not at every new route
EdgeLinesColourPerFlow(fl, color_map, k) ==
    [j \in 1..Len(fl) |->
        [kind |-> "edge",
         source |-> fl[j].source,
         destination |-> fl[j].destination,
         route |-> fl[j].route,
         priority |-> IF fl[j].priority # sNA THEN fl[j].priority ELSE None,
         condition |-> IF fl[j].condition # sNA THEN ShortCondition(fl[j].condition) ELSE None,
         color |-> RouteColors[((j - 1) % Len(RouteColors)) + 1]]]

\* the edge lines: route_color_map is filled in first-seen order, colour
\* route_colors[color_index % len(route_colors)]
RECURSIVE EdgeLines(_, _, _)
EdgeLines(fl, color_map, k) ==
    IF k > Len(fl) THEN <<>>
    ELSE LET f == fl[k]
             map2 == IF DictHas(color_map, f.route) THEN color_map
                     ELSE DictPut(color_map, f.route,
                                  RouteColors[(Len(color_map) % Len(RouteColors)) + 1])
         IN  << [kind |-> "edge",
                 source |-> f.source,
                 destination |-> f.destination,
                 route |-> f.route,
                 priority |-> IF f.priority # sNA THEN f.priority ELSE None,
                 condition |-> IF f.condition # sNA THEN ShortCondition(f.condition) ELSE None,
                 color |-> DictGet(map2, f.route)] >>
             \o EdgeLines(fl, map2, k + 1)

\* the legend lines: for section_type, color in colors.items(), if any section has the type
RECURSIVE LegendLines(_, _)
LegendLines(info, k) ==
    IF k > Len(TypeColors) THEN <<>>
    ELSE (IF \E n \in 1..Len(info) : info[n].v.type = TypeColors[k].k
          THEN << [kind |-> "legend", type |-> TypeColors[k].k, fillcolor |-> TypeColors[k].v] >>
          ELSE <<>>)
         \o LegendLines(info, k + 1)

\* _generate_graphviz: the text built from sections_info, unconnected_sections and flows
GenerateGraphviz(info, unconn, fl) ==
    NodeLines(info, unconn) \o EdgeLines(fl, <<>>, 1) \o LegendLines(info, 1)
        \o << [kind |-> "legend_disconnected"] >>

(***************************************************************************)
(* _parse_path_expression                                                  *)
(***************************************************************************)

\* CrossPairs pairing position by position (zip) instead of every combination
CrossPairsZip(srcs, dsts, a, b) ==
    LET n == IF Len(srcs) < Len(dsts) THEN Len(srcs) ELSE Len(dsts)
        NonEmpty(pr) == pr[1] # <<>> /\ pr[2] # <<>>
    IN  SelectSeq([k \in 1..n |-> <<Strip(srcs[k]), Strip(dsts[k])>>], NonEmpty)

\* for source in sources: for dest in destinations: if source and dest
RECURSIVE CrossPairs(_, _, _, _)
CrossPairs(srcs, dsts, a, b) ==
    IF a > Len(srcs) THEN <<>>
    ELSE IF b > Len(dsts) THEN CrossPairs(srcs, dsts, a + 1, 1)
    ELSE (IF srcs[a] # <<>> /\ dsts[b] # <<>>
          THEN << <<Strip(srcs[a]), Strip(dsts[b])>> >> ELSE <<>>)
         \o CrossPairs(srcs, dsts, a, b + 1)

\* for i in range(len(segments) - 1)
RECURSIVE SegmentPairs(_, _)
SegmentPairs(segments, k) ==
    IF k > Len(segments) - 1 THEN <<>>
    ELSE CrossPairs(StageNames(segments[k]), StageNames(segments[k + 1]), 1, 1)
         \o SegmentPairs(segments, k + 1)

\* _parse_path_expression(path_expr)
ParsePathExpression(path_expr) ==
    SegmentPairs(StripAll(Split(Strip(path_expr), sArrow)), 1)

(***************************************************************************)
(* parse_config_file: the regular expressions                              *)
(***************************************************************************)

\* re.sub(r'#.*$', '', content, flags=re.MULTILINE), on one line
StripComment(raw) == Slice(raw, 1, FindChar(raw, "#", 1) - 1)

\* re.match(r'<(\w+)\s+([^>]+)>', line): \w+ and \s+ are greedy; when '>' follows
\* the blanks at once, \s+ gives its last blank back to [^>]+
MatchSection(line) ==
    LET w == WordEnd(line, 2)
        v == SpaceEnd(line, w)
        g == FindChar(line, ">", v)
    IN  IF Len(line) >= 1 /\ line[1] = "<" /\ w > 2 /\ v > w /\ g <= Len(line)
        THEN IF g > v
             THEN [ok |-> TRUE, type |-> Slice(line, 2, w - 1), name |-> Slice(line, v, g - 1)]
             ELSE IF v - w >= 2
                  THEN [ok |-> TRUE, type |-> Slice(line, 2, w - 1), name |-> Slice(line, v - 1, v - 1)]
                  ELSE [ok |-> FALSE, type |-> <<>>, name |-> <<>>]
        ELSE [ok |-> FALSE, type |-> <<>>, name |-> <<>>]

\* re.match(r'</\w+>', line)
MatchClose(line) ==
    LET w == WordEnd(line, 3)
    IN  /\ StartsWith(line, <<"<", "/">>)
        /\ w > 3
        /\ w <= Len(line)
        /\ line[w] = ">"

\* re.match(r'<Exec>', line, re.IGNORECASE)
MatchExecOpen(line) == Len(line) >= 6 /\ Lower(Slice(line, 1, 6)) = sExecOpen

\* re.match(r'</Exec>', line, re.IGNORECASE)
MatchExecClose(line) == Len(line) >= 7 /\ Lower(Slice(line, 1, 7)) = sExecClose

\* the group after a \s+ run ending before position v, (.+): when nothing
\* follows the blanks, \s+ gives its last blank back to .+
RestAfterBlanks(line, w, v) ==
    IF v <= Len(line) THEN [ok |-> v > w, text |-> Slice(line, v, Len(line))]
    ELSE [ok |-> v - w >= 2, text |-> Slice(line, Len(line), Len(line))]

\* re.match(r'(\w+)\s+(.+)', line)
MatchParam(line) ==
    LET w == WordEnd(line, 1)
        v == SpaceEnd(line, w)
        rest == RestAfterBlanks(line, w, v)
    IN  IF w > 1 /\ rest.ok
        THEN [ok |-> TRUE, name |-> Slice(line, 1, w - 1), value |-> rest.text]
        ELSE [ok |-> FALSE, name |-> <<>>, value |-> <<>>]

\* re.match(r'Exec\s+(.+)', next_line, re.IGNORECASE)
MatchNextExec(line) ==
    LET v == SpaceEnd(line, 5)
        rest == RestAfterBlanks(line, 5, v)
    IN  IF Len(line) >= 4 /\ Lower(Slice(line, 1, 4)) = sExecLower /\ rest.ok
        THEN [ok |-> TRUE, value |-> rest.text]
        ELSE [ok |-> FALSE, value |-> <<>>]

(***************************************************************************)
(* parse_config_file: the loop body                                        *)
(***************************************************************************)

\* lines[i].strip() (i is the 0-based cursor)
LineAt(ls, n) == Strip(ls[n + 1])

\* ExecCapture ended by any closing tag, not only by </Exec>
RECURSIVE ExecCaptureAnyClose(_, _, _)
ExecCaptureAnyClose(ls, j, acc) ==
    IF j >= Len(ls) THEN [exec_lines |-> acc, stop |-> j]
    ELSE IF MatchClose(LineAt(ls, j)) THEN [exec_lines |-> acc, stop |-> j]
    ELSE ExecCaptureAnyClose(ls, j + 1,
                     IF LineAt(ls, j) # <<>> THEN Append(acc, LineAt(ls, j)) ELSE acc)

\* "Collecter toutes les lignes jusqu'a </Exec>": from cursor j, the stripped
\* non-blank lines before the first </Exec> line, and the cursor it stops at
RECURSIVE ExecCapture(_, _, _)
ExecCapture(ls, j, acc) ==
    IF j >= Len(ls) THEN [exec_lines |-> acc, stop |-> j]
    ELSE IF MatchExecClose(LineAt(ls, j)) THEN [exec_lines |-> acc, stop |-> j]
    ELSE ExecCapture(ls, j + 1,
                     IF LineAt(ls, j) # <<>> THEN Append(acc, LineAt(ls, j)) ELSE acc)

\* "Collecter toutes les lignes Exec consecutives": from cursor j, the values of
\* the following Exec lines (blank lines skipped), and the cursor it stops at
RECURSIVE ExecMerge(_, _, _)
ExecMerge(ls, j, acc) ==
    IF j >= Len(ls) THEN [exec_lines |-> acc, stop |-> j]
    ELSE IF LineAt(ls, j) = <<>> THEN ExecMerge(ls, j + 1, acc)
    ELSE IF MatchNextExec(LineAt(ls, j)).ok
         THEN ExecMerge(ls, j + 1, Append(acc, Strip(MatchNextExec(LineAt(ls, j)).value)))
         ELSE [exec_lines |-> acc, stop |-> j]

\* "Supprimer les guillemets si presents"
StripQuotes(value) ==
    IF StartsWith(value, sDQuote) /\ EndsWith(value, sDQuote)
    THEN Slice(value, 2, Len(value) - 1)
    ELSE IF StartsWith(value, sSQuote) /\ EndsWith(value, sSQuote)
         THEN Slice(value, 2, Len(value) - 1)
         ELSE value

\* ParamValue with the cursor left on j instead of j - 1 after an Exec merge
ParamValueSkipNext(ls, n) ==
    LET m == MatchParam(LineAt(ls, n))
    IN  IF Lower(m.name) = sExecLower
        THEN LET merged == ExecMerge(ls, n + 1, <<Strip(m.value)>>)
             IN  [value |-> StripQuotes(Join(merged.exec_lines, sPipe)),
                  last |-> merged.stop]
        ELSE [value |-> StripQuotes(Strip(m.value)), last |-> n]

\* the value of a parameter line at cursor n and the cursor of its last consumed
\* line: an Exec line takes the consecutive Exec lines with it (i = j - 1)
ParamValue(ls, n) ==
    LET m == MatchParam(LineAt(ls, n))
    IN  IF Lower(m.name) = sExecLower
        THEN LET merged == ExecMerge(ls, n + 1, <<Strip(m.value)>>)
             IN  [value |-> StripQuotes(Join(merged.exec_lines, sPipe)),
                  last |-> merged.stop - 1]
        ELSE [value |-> StripQuotes(Strip(m.value)), last |-> n]

\* Record with the section's type and name exchanged
RecordSwapped(section, section_name, parameter, value) ==
    [Section |-> section_name, Nom_Section |-> section,
     Parametre |-> parameter, Valeur |-> value]

\* the dict appended to file_data
Record(section, section_name, parameter, value) ==
    [Section |-> section, Nom_Section |-> section_name,
     Parametre |-> parameter, Valeur |-> value]

\* which branch of the loop body the line at the cursor takes
Branch(ls, n, section) ==
    LET line == LineAt(ls, n)
    IN  IF line = <<>> THEN "blank"
        ELSE IF MatchSection(line).ok THEN "open"
        ELSE IF MatchClose(line) THEN "close"
        ELSE IF MatchExecOpen(line) THEN "exec"
        ELSE IF MatchParam(line).ok /\ Truthy(section) THEN "param"
        ELSE "other"

(***************************************************************************)
(* parse_nxlog_config, the module-level parser                             *)
(***************************************************************************)

\* the locals of parse_nxlog_config when its loop is entered, with the fields of
\* its FlowMapper
NxStart ==
    [current_section |-> None, current_section_name |-> None,
     section_module |-> None, section_details |-> <<>>, config_data |-> <<>>,
     sections |-> <<>>, sections_info |-> <<>>, routes |-> <<>>]

\* "Fin de section": flow_mapper.add_section(current_section, current_section_name,
\* section_module), the tag as section_name and the name as section_type, no details
NxCloseSection(st) ==
    LET added ==
          IF Truthy(st.current_section) /\ Truthy(st.current_section_name)
          THEN [st EXCEPT
                  !.sections = DictPut(@, st.current_section,
                        SectionEntry(st.current_section_name, st.section_module, <<>>)),
                  !.sections_info = DictPut(@, st.current_section,
                        SectionInfoEntry(st.current_section_name, st.section_module, <<>>))]
          ELSE st
    IN  [added EXCEPT !.current_section = None, !.current_section_name = None,
                      !.section_module = None, !.section_details = <<>>]

\* "Parametres": a parameter line m read inside a section
NxParam(st, m) ==
    LET param_value == StripQuotes(Strip(m.value))
    IN  [st EXCEPT
           !.section_module = IF m.name = sModule THEN param_value ELSE @,
           !.routes = IF st.current_section = sRoute /\ m.name = sPath
                      THEN AddRouteTo(@, st.current_section_name, param_value,
                                      DictGetOrNone(st.section_details, sPriority),
                                      DictGetOrNone(st.section_details, sCondition))
                      ELSE @,
           !.section_details = DictPut(@, m.name, param_value),
           !.config_data = Append(@, [section_type |-> st.current_section,
                                      section_name |-> st.current_section_name,
                                      parameter |-> m.name,
                                      value |-> param_value])]

\* the loop of parse_nxlog_config from cursor n on
RECURSIVE NxLoop(_, _, _)
NxLoop(ls, n, st) ==
    IF n >= Len(ls) THEN st
    ELSE LET line == LineAt(ls, n)
         IN  IF line = <<>> THEN NxLoop(ls, n + 1, st)
             ELSE IF MatchSection(line).ok
                  THEN NxLoop(ls, n + 1,
                          [st EXCEPT !.current_section = MatchSection(line).type,
                                     !.current_section_name = MatchSection(line).name,
                                     !.section_module = None,
                                     !.section_details = <<>>])
             ELSE IF MatchClose(line) THEN NxLoop(ls, n + 1, NxCloseSection(st))
             ELSE IF MatchParam(line).ok /\ Truthy(st.current_section)
                  THEN NxLoop(ls, n + 1, NxParam(st, MatchParam(line)))
             ELSE NxLoop(ls, n + 1, st)

\* parse_nxlog_config on the lines of a readable file: {'config': ..., 'flows': ...}
ParseNxlogConfig(ls) ==
    LET st == NxLoop(ls, 0, NxStart)
        fl == AppendRouteFlows(ResetFlows(<<>>), st.sections, st.routes, 1)
        unconn == Unconnected(st.sections_info, fl)
        gv == GenerateGraphviz(st.sections_info, unconn, fl)
    IN  [config |-> st.config_data,
         flows |-> [flows |-> fl,
                    sections |-> st.sections_info,
                    unconnected |-> unconn,
                    stats |-> GetFlowStats(st.routes, st.sections_info, fl, unconn),
                    graphviz |-> gv]]

(***************************************************************************)
(* Bounds and input vocabularies                                           *)
(***************************************************************************)
MaxLines == 5

MaxAnalyses == 2

OpenTag(type, name) == <<"<">> \o type \o <<" ">> \o name \o <<">">>

CloseTag(type) == <<"<", "/">> \o type \o <<">">>

ParamText(name, value) == name \o <<" ">> \o value

\* the raw lines of the documents with Exec constructs
ExecLineVocab ==
    { OpenTag(sInput, <<"a">>),
      CloseTag(sInput),
      <<"<", "E", "x", "e", "c", ">">>,
      <<"<", "/", "E", "x", "e", "c", ">">>,
      ParamText(sExec, <<"x">>),
      ParamText(sExecLower, <<"\"", "y", "\"">>),
      <<>> }

\* the raw lines of the documents with Route blocks
RouteLineVocab ==
    { OpenTag(sRoute, <<"r">>),
      CloseTag(sRoute),
      ParamText(sPriority, <<"1">>),
      ParamText(sCondition, <<"c">>),
      ParamText(sPath, <<"a", " ", "=", ">", " ", "b", " ", "#", "c">>),
      <<"<", "E", "x", "e", "c", ">">>,
      <<>> }

DocsOver(vocab) == UNION {[1..n -> vocab] : n \in 1..MaxLines}

\* the arguments FlowMapper's methods are called with
SectionNames == {<<"a">>, <<"x">>}

SectionKinds == { [type |-> sInput, module |-> <<"m">>],
                  [type |-> sOutput, module |-> None],
                  [type |-> sTotalFlows, module |-> None] }

RouteNames == {<<"r">>, <<"s">>}

RouteAttrs == { [priority |-> None, condition |-> None],
                [priority |-> <<"1">>, condition |-> <<"c">>] }

PathVocab ==
    { <<"a", ",", " ", "b", " ", "=", ">", " ", "c", ",", " ", "d">>,
      <<"a">>,
      <<"a", ",", "b", "=", ">", "c", "=", ">", "d", ",", "e">>,
      <<"a", ",", ",", "b", " ", "=", ">", " ", "c">>,
      <<"=", ">", " ", "b">> }

(***************************************************************************)
(* Actions                                                                 *)
(***************************************************************************)

\* AnalyzeFlows resolving the endpoints against an empty section table
AnalyzeFlowsNoSections ==
    LET fl == AppendRouteFlows(ResetFlows(flows), <<>>, routes, 1)
        unconn == Unconnected(sections_info, fl)
        gv == GenerateGraphviz(sections_info, unconn, fl)
    IN  /\ flows' = fl
        /\ sections' = MarkRoutes(sections, routes, 1)
        /\ unconnected_sections' = unconn
        /\ graphviz_content' = gv
        /\ returned' = Append(returned,
                [flows |-> fl,
                 sections |-> sections_info,
                 unconnected |-> unconn,
                 stats |-> GetFlowStats(routes, sections_info, fl, unconn),
                 graphviz |-> gv])
        /\ UNCHANGED <<routes, sections_info>>

\* analyze_flows(): the new values of the FlowMapper's fields and the value returned
AnalyzeFlows ==
    LET fl == AppendRouteFlows(ResetFlows(flows), sections, routes, 1)
        unconn == Unconnected(sections_info, fl)
        gv == GenerateGraphviz(sections_info, unconn, fl)
    IN  /\ flows' = fl
        /\ sections' = MarkRoutes(sections, routes, 1)
        /\ unconnected_sections' = unconn
        /\ graphviz_content' = gv
        /\ returned' = Append(returned,
                [flows |-> fl,
                 sections |-> sections_info,
                 unconnected |-> unconn,
                 stats |-> GetFlowStats(routes, sections_info, fl, unconn),
                 graphviz |-> gv])
        /\ UNCHANGED <<routes, sections_info>>

\* AddSection keeping the entry a name already has
AddSectionFirstWins(section_name, section_type, module, details) ==
    IF DictHas(sections, section_name)
    THEN UNCHANGED <<sections, sections_info>>
    ELSE /\ sections' = Append(sections, [k |-> section_name,
                                          v |-> SectionEntry(section_type, module, details)])
         /\ sections_info' = Append(sections_info, [k |-> section_name,
                                          v |-> SectionInfoEntry(section_type, module, details)])

\* add_section(section_name, section_type, module, details)
AddSection(section_name, section_type, module, details) ==
    /\ sections' = DictPut(sections, section_name,
                           SectionEntry(section_type, module, details))
    /\ sections_info' = DictPut(sections_info, section_name,
                                SectionInfoEntry(section_type, module, details))

InParse == pc = "parse" /\ i < Len(lines)

\* loop body: a blank line
SkipBlank ==
    /\ InParse
    /\ Branch(lines, i, current_section) = "blank"
    /\ i' = i + 1
    /\ UNCHANGED <<lines, current_section, current_section_name, section_module,
                   section_details, file_data, pc, mapperVars, exprVars, batchVars>>

\* OpenSection without the reset of the attribute accumulator
OpenSectionKeepDetails ==
    /\ InParse
    /\ Branch(lines, i, current_section) = "open"
    /\ current_section' = MatchSection(LineAt(lines, i)).type
    /\ current_section_name' = MatchSection(LineAt(lines, i)).name
    /\ section_module' = None
    /\ i' = i + 1
    /\ UNCHANGED <<lines, section_details, file_data, pc, mapperVars, exprVars, batchVars>>

\* OpenSection without the reset of the module
OpenSectionKeepModule ==
    /\ InParse
    /\ Branch(lines, i, current_section) = "open"
    /\ current_section' = MatchSection(LineAt(lines, i)).type
    /\ current_section_name' = MatchSection(LineAt(lines, i)).name
    /\ section_details' = <<>>
    /\ i' = i + 1
    /\ UNCHANGED <<lines, section_module, file_data, pc, mapperVars, exprVars, batchVars>>

\* loop body: "Debut de section"
OpenSection ==
    /\ InParse
    /\ Branch(lines, i, current_section) = "open"
    /\ current_section' = MatchSection(LineAt(lines, i)).type
    /\ current_section_name' = MatchSection(LineAt(lines, i)).name
    /\ section_module' = None
    /\ section_details' = <<>>
    /\ i' = i + 1
    /\ UNCHANGED <<lines, file_data, pc, mapperVars, exprVars, batchVars>>

\* CloseSection without the clearing of the context
CloseSectionKeepContext ==
    /\ InParse
    /\ Branch(lines, i, current_section) = "close"
    /\ IF Truthy(current_section) /\ Truthy(current_section_name)
       THEN AddSection(current_section_name, current_section, section_module,
                       section_details)
       ELSE UNCHANGED <<sections, sections_info>>
    /\ i' = i + 1
    /\ UNCHANGED <<lines, current_section, current_section_name, section_module,
                   section_details, file_data, pc, routes, flows,
                   unconnected_sections, graphviz_content, returned, exprVars, batchVars>>

\* loop body: "Fin de section"
CloseSection ==
    /\ InParse
    /\ Branch(lines, i, current_section) = "close"
    /\ IF Truthy(current_section) /\ Truthy(current_section_name)
       THEN AddSection(current_section_name, current_section, section_module,
                       section_details)
       ELSE UNCHANGED <<sections, sections_info>>
    /\ current_section' = None
    /\ current_section_name' = None
    /\ section_module' = None
    /\ section_details' = <<>>
    /\ i' = i + 1
    /\ UNCHANGED <<lines, file_data, pc, routes, flows, unconnected_sections,
                   graphviz_content, returned, exprVars, batchVars>>

\* ExecBlock without the test of the open section
ExecBlockAnywhere ==
    /\ InParse
    /\ Branch(lines, i, current_section) = "exec"
    /\ LET cap == ExecCapture(lines, i + 1, <<>>)
       IN  /\ file_data' =
                IF cap.exec_lines # <<>>
                THEN Append(file_data,
                            Record(current_section, current_section_name, sExec,
                                   Join(cap.exec_lines, sNewline)))
                ELSE file_data
           /\ i' = cap.stop + 1
    /\ UNCHANGED <<lines, current_section, current_section_name, section_module,
                   section_details, pc, mapperVars, exprVars, batchVars>>

\* loop body: an <Exec> block
ExecBlock ==
    /\ InParse
    /\ Branch(lines, i, current_section) = "exec"
    /\ LET cap == ExecCapture(lines, i + 1, <<>>)
       IN  /\ file_data' =
                IF cap.exec_lines # <<>> /\ Truthy(current_section)
                THEN Append(file_data,
                            Record(current_section, current_section_name, sExec,
                                   Join(cap.exec_lines, sNewline)))
                ELSE file_data
           /\ i' = cap.stop + 1
    /\ UNCHANGED <<lines, current_section, current_section_name, section_module,
                   section_details, pc, mapperVars, exprVars, batchVars>>

\* loop body: "Parametres normaux", inside a section
ParamLine ==
    /\ InParse
    /\ Branch(lines, i, current_section) = "param"
    /\ LET param_name == MatchParam(LineAt(lines, i)).name
           pv == ParamValue(lines, i)
       IN  /\ section_module' = IF param_name = sModule THEN pv.value ELSE section_module
           /\ routes' =
                IF current_section = sRoute /\ param_name = sPath
                THEN AddRouteTo(routes, current_section_name, pv.value,
                                DictGetOrNone(section_details, sPriority),
                                DictGetOrNone(section_details, sCondition))
                ELSE routes
           /\ section_details' = DictPut(section_details, param_name, pv.value)
           /\ file_data' = Append(file_data,
                                  Record(current_section, current_section_name,
                                         param_name, pv.value))
           /\ i' = pv.last + 1
    /\ UNCHANGED <<lines, current_section, current_section_name, pc, sections,
                   sections_info, flows, unconnected_sections, graphviz_content,
                   returned, exprVars, batchVars>>

\* IgnoreLine without the step of the cursor
IgnoreLineStay ==
    /\ InParse
    /\ Branch(lines, i, current_section) = "other"
    /\ UNCHANGED <<lines, i, current_section, current_section_name, section_module,
                   section_details, file_data, pc, mapperVars, exprVars, batchVars>>

\* IgnoreLine closing the context
IgnoreLineCloses ==
    /\ InParse
    /\ Branch(lines, i, current_section) = "other"
    /\ i' = i + 1
    /\ current_section' = None
    /\ current_section_name' = None
    /\ UNCHANGED <<lines, section_module, section_details, file_data, pc,
                   mapperVars, exprVars, batchVars>>

\* loop body: any other line
IgnoreLine ==
    /\ InParse
    /\ Branch(lines, i, current_section) = "other"
    /\ i' = i + 1
    /\ UNCHANGED <<lines, current_section, current_section_name, section_module,
                   section_details, file_data, pc, mapperVars, exprVars, batchVars>>

\* after the loop: flow_mapper.analyze_flows(), return file_data, flow_mapper
FinishParse ==
    /\ pc = "parse"
    /\ i >= Len(lines)
    /\ AnalyzeFlows
    /\ pc' = "done"
    /\ UNCHANGED <<parserVars, exprVars, batchVars>>

\* a caller's flow_mapper.add_section(...)
CallAddSection ==
    /\ pc = "api"
    /\ returned = <<>>
    /\ \E n \in SectionNames, kind \in SectionKinds :
          /\ AddSection(n, kind.type, kind.module, <<>>)
    /\ UNCHANGED <<parserVars, pc, routes, flows, unconnected_sections,
                   graphviz_content, returned, exprVars, batchVars>>

\* a caller's flow_mapper.add_route(...)
CallAddRoute ==
    /\ pc = "api"
    /\ returned = <<>>
    /\ \E n \in RouteNames, path \in PathVocab, at \in RouteAttrs :
          /\ routes' = AddRouteTo(routes, n, path, at.priority, at.condition)
    /\ UNCHANGED <<parserVars, pc, sections, sections_info, flows,
                   unconnected_sections, graphviz_content, returned, exprVars, batchVars>>

\* a caller's flow_mapper.analyze_flows()
CallAnalyzeFlows ==
    /\ pc = "api"
    /\ Len(returned) < MaxAnalyses
    /\ AnalyzeFlows
    /\ UNCHANGED <<parserVars, pc, exprVars, batchVars>>

\* a caller's flow_mapper._parse_path_expression(route['path']) for a registered route
CallParsePathExpression ==
    /\ pc = "api"
    /\ returned # <<>>
    /\ \E k \in 1..Len(routes) :
          /\ expr_arg' = routes[k].v.path
          /\ expr_pairs' = ParsePathExpression(routes[k].v.path)
    /\ UNCHANGED <<parserVars, pc, mapperVars, batchVars>>

EmptyMapper ==
    /\ routes = <<>>
    /\ sections = <<>>
    /\ sections_info = <<>>
    /\ flows = <<>>
    /\ unconnected_sections = {}
    /\ graphviz_content = <<>>
    /\ returned = <<>>
    /\ expr_arg = None
    /\ expr_pairs = <<>>

\* no directory is being processed: a fresh NXLogConfigAnalyzer
NoBatch ==
    /\ config_files = <<>>
    /\ file_no = 0
    /\ files_data = <<>>
    /\ flow_mappers = <<>>
    /\ config_data = <<>>
    /\ reported = None

\* parse_config_file on a document of the given lines: the state when the loop is entered
InitParse(vocab) ==
    /\ \E doc \in DocsOver(vocab) : lines = [k \in 1..Len(doc) |-> StripComment(doc[k])]
    /\ i = 0
    /\ current_section = None
    /\ current_section_name = None
    /\ section_module = None
    /\ section_details = <<>>
    /\ file_data = <<>>
    /\ pc = "parse"
    /\ EmptyMapper
    /\ NoBatch

Next ==
    \/ SkipBlank
    \/ OpenSection
    \/ CloseSection
    \/ ExecBlock
    \/ ParamLine
    \/ IgnoreLine
    \/ FinishParse

Init == InitParse(ExecLineVocab)

Spec == Init /\ [][Next]_vars

InitRoutes == InitParse(RouteLineVocab)

SpecRoutes == InitRoutes /\ [][Next]_vars

\* a FlowMapper used through its methods: the state after FlowMapper()
InitMapper ==
    /\ lines = <<>>
    /\ i = 0
    /\ current_section = None
    /\ current_section_name = None
    /\ section_module = None
    /\ section_details = <<>>
    /\ file_data = <<>>
    /\ pc = "api"
    /\ EmptyMapper
    /\ NoBatch

NextMapper ==
    \/ CallAddSection
    \/ CallAddRoute
    \/ CallAnalyzeFlows
    \/ CallParsePathExpression

SpecMapper == InitMapper /\ [][NextMapper]_vars

(***************************************************************************)
(* Documents made of blocks of lines                                       *)
(***************************************************************************)
MaxBlocks == 3

RECURSIVE ConcatAll(_, _)
ConcatAll(seqs, k) == IF k > Len(seqs) THEN <<>> ELSE seqs[k] \o ConcatAll(seqs, k + 1)

DocsOfBlocks(blocks) ==
    { ConcatAll(bs, 1) : bs \in UNION {[1..n -> blocks] : n \in 1..MaxBlocks} }

\* the raw lines of the documents with quoted parameter values
QuoteBlocks ==
    { << <<"<", "I", "n", "p", "u", "t", " ", "a", ">">> >>,
      << <<"P", " ", "\"", "v", "\"">> >>,
      << <<"P", " ", "'", "v", "'">> >>,
      << <<"P", " ", "\"", "v">> >>,
      << <<"P", " ", "\"", "v", "'">> >>,
      << <<"P", " ", "\"">> >>,
      << <<"P", " ", "v">> >>,
      << <<"<", "/", "I", "n", "p", "u", "t", ">">> >>,
      << <<>>,
         <<"<", "E", "x", "e", "c", ">">> >> }

\* the raw lines of the documents with several sections and routes
SectionBlocks ==
    { << <<"<", "I", "n", "p", "u", "t", " ", "a", ">">>,
         <<"M", "o", "d", "u", "l", "e", " ", "m">>,
         <<"<", "/", "I", "n", "p", "u", "t", ">">> >>,
      << <<"<", "O", "u", "t", "p", "u", "t", " ", "a", ">">>,
         <<"<", "/", "x", ">">> >>,
      << <<"<", "I", "n", "p", "u", "t", " ", "a", ">">>,
         <<"M", "o", "d", "u", "l", "e", " ", "m">> >>,
      << <<"<", "O", "u", "t", "p", "u", "t", " ", "b", ">">>,
         <<"H", "o", "s", "t", " ", "h">> >>,
      << <<"<", "/", "I", "n", "p", "u", "t", ">">> >>,
      << <<"<", "R", "o", "u", "t", "e", " ", "r", ">">>,
         <<"P", "a", "t", "h", " ", "a", " ", "=", ">", " ", "b">> >>,
      << <<"<", "R", "o", "u", "t", "e", " ", "s", ">">>,
         <<"P", "a", "t", "h", " ", "b", " ", "=", ">", " ", "a", ",", " ", "a">> >>,
      << <<"<", "R", "o", "u", "t", "e", " ", "r", ">">>,
         <<"P", "a", "t", "h", " ", "b", " ", "=", ">", " ", "c">> >>,
      << <<>>,
         <<"<", "E", "x", "e", "c", ">">>,
         <<"x">>,
         <<"<", "/", "E", "x", "e", "c", ">">> >>,
      << <<"M", "o", "d", "u", "l", "e", " ", "m">> >>,
      << <<"P", "a", "t", "h", " ", "b", " ", "=", ">", " ", "c">> >>,
      << <<"<", "R", "o", "u", "t", "e", " ", "t", ">">>,
         <<"P", "a", "t", "h", " ", "a", " ", "=", ">">> >> }

\* the raw lines of the documents with <Exec> blocks, closed or not, and noise lines
ExecBlocks ==
    { << <<"<", "I", "n", "p", "u", "t", " ", "a", ">">> >>,
      << <<"<", "E", "x", "e", "c", ">">>,
         <<"x">>,
         <<>>,
         <<"<", "/", "I", "n", "p", "u", "t", ">">>,
         <<"<", "/", "E", "x", "e", "c", ">">> >>,
      << <<"<", "E", "x", "e", "c", ">">>,
         <<"y">>,
         <<"<", "I", "n", "p", "u", "t", " ", "b", ">">> >>,
      << <<"<", "E", "x", "e", "c", ">">> >>,
      << <<"<", "/", "E", "x", "e", "c", ">">> >>,
      << <<"E", "x", "e", "c", " ", "x">>,
         <<>>,
         <<"e", "x", "e", "c", " ", "\"", "y", "\"">> >>,
      << <<"<", "/", "I", "n", "p", "u", "t", ">">> >>,
      << <<>>,
         <<"<", "I", "n", "p", "u", "t", ">">> >> }

\* parse_config_file on one of the given documents: the state when the loop is entered
InitDocs(docs) ==
    /\ \E doc \in docs : lines = [k \in 1..Len(doc) |-> StripComment(doc[k])]
    /\ i = 0
    /\ current_section = None
    /\ current_section_name = None
    /\ section_module = None
    /\ section_details = <<>>
    /\ file_data = <<>>
    /\ pc = "parse"
    /\ EmptyMapper
    /\ NoBatch

InitQuotes == InitDocs(DocsOfBlocks(QuoteBlocks))

SpecQuotes == InitQuotes /\ [][Next]_vars

InitExec == InitDocs(DocsOfBlocks(ExecBlocks))

SpecExec == InitExec /\ [][Next]_vars

\* the loop is a sequential program: it goes on as long as it has a step to take
SpecLive == InitExec /\ [][Next]_vars /\ WF_vars(Next)

InitSections == InitDocs(DocsOfBlocks(SectionBlocks))

SpecSections == InitSections /\ [][Next]_vars

(***************************************************************************)
(* process_directory                                                       *)
(***************************************************************************)
MaxFiles == 3

\* a file whose section holds one parameter
TextOneRecord ==
    << <<"<", "I", "n", "p", "u", "t", " ", "a", ">">>,
      <<"M", "o", "d", "u", "l", "e", " ", "m">>,
      <<"<", "/", "I", "n", "p", "u", "t", ">">> >>

\* a file whose only section is empty: no parameter record
TextNoRecord ==
    << <<"<", "I", "n", "p", "u", "t", " ", "a", ">">>,
      <<"<", "/", "I", "n", "p", "u", "t", ">">> >>

\* a file with a route, an <Exec> block and lines outside a section
TextRoute ==
    << <<>>,
      <<"M", "o", "d", "u", "l", "e", " ", "m">>,
      <<"<", "R", "o", "u", "t", "e", " ", "r", ">">>,
      <<"<", "E", "x", "e", "c", ">">>,
      <<"z">>,
      <<"<", "/", "E", "x", "e", "c", ">">>,
      <<"P", "a", "t", "h", " ", "a", " ", "=", ">", " ", "b">> >>

\* what open(config_file).read() gives: the text, FileNotFoundError or another exception
FileVocab ==
    { [kind |-> "text", text |-> TextOneRecord],
      [kind |-> "text", text |-> TextNoRecord],
      [kind |-> "text", text |-> TextRoute],
      [kind |-> "missing", text |-> <<>>],
      [kind |-> "unreadable", text |-> <<>>] }

\* config_file.stem of the files of a directory: names differ within a directory
Stems == << <<"f">>, <<"g">>, <<"h">>, <<"k">> >>

\* a new FlowMapper()
NewMapper ==
    /\ routes' = <<>>
    /\ sections' = <<>>
    /\ sections_info' = <<>>
    /\ flows' = <<>>
    /\ unconnected_sections' = {}
    /\ graphviz_content' = <<>>
    /\ returned' = <<>>

\* the FlowMapper parse_config_file returns, as stored in flow_mappers
MapperValue ==
    [routes |-> routes, sections |-> sections, sections_info |-> sections_info,
     flows |-> flows, unconnected_sections |-> unconnected_sections,
     graphviz_content |-> graphviz_content]

InBatch == pc = "batch" /\ file_no < Len(config_files)

\* OpenFile going on with the FlowMapper of the file before
OpenFileSharedMapper ==
    /\ InBatch
    /\ config_files[file_no + 1].kind = "text"
    /\ file_no' = file_no + 1
    /\ lines' = [k \in 1..Len(config_files[file_no + 1].text) |->
                    StripComment(config_files[file_no + 1].text[k])]
    /\ i' = 0
    /\ current_section' = None
    /\ current_section_name' = None
    /\ section_module' = None
    /\ section_details' = <<>>
    /\ file_data' = <<>>
    /\ pc' = "parse"
    /\ UNCHANGED <<mapperVars, exprVars, config_files, files_data, flow_mappers,
                   config_data, reported>>

\* for config_file in config_files: parse_config_file reads the file and enters its loop
OpenFile ==
    /\ InBatch
    /\ config_files[file_no + 1].kind = "text"
    /\ file_no' = file_no + 1
    /\ lines' = [k \in 1..Len(config_files[file_no + 1].text) |->
                    StripComment(config_files[file_no + 1].text[k])]
    /\ i' = 0
    /\ current_section' = None
    /\ current_section_name' = None
    /\ section_module' = None
    /\ section_details' = <<>>
    /\ file_data' = <<>>
    /\ NewMapper
    /\ pc' = "parse"
    /\ UNCHANGED <<exprVars, config_files, files_data, flow_mappers, config_data, reported>>

\* for config_file in config_files: open() or read() raises, parse_config_file
\* returns [], FlowMapper()
FailFile ==
    /\ InBatch
    /\ config_files[file_no + 1].kind \in {"missing", "unreadable"}
    /\ file_no' = file_no + 1
    /\ file_data' = <<>>
    /\ NewMapper
    /\ pc' = "done"
    /\ UNCHANGED <<lines, i, current_section, current_section_name, section_module,
                   section_details, exprVars, config_files, files_data, flow_mappers,
                   config_data, reported>>

\* process_directory: if file_data: store the records and the FlowMapper
StoreFile ==
    /\ pc = "done"
    /\ file_no >= 1
    /\ IF file_data # <<>>
       THEN /\ files_data' = DictPut(files_data, Stems[file_no], file_data)
            /\ flow_mappers' = DictPut(flow_mappers, Stems[file_no], MapperValue)
            /\ config_data' = config_data \o file_data
       ELSE UNCHANGED <<files_data, flow_mappers, config_data>>
    /\ pc' = "batch"
    /\ UNCHANGED <<parserVars, mapperVars, exprVars, config_files, file_no, reported>>

\* process_directory: after the loop, print(len(self.files_data))
FinishBatch ==
    /\ pc = "batch"
    /\ file_no = Len(config_files)
    /\ reported' = Len(files_data)
    /\ pc' = "finished"
    /\ UNCHANGED <<parserVars, mapperVars, exprVars, config_files, file_no, files_data,
                   flow_mappers, config_data>>

\* process_directory on a directory of one file or more: the state when the loop is entered
InitBatch ==
    /\ config_files \in UNION {[1..n -> FileVocab] : n \in 1..MaxFiles}
    /\ file_no = 0
    /\ files_data = <<>>
    /\ flow_mappers = <<>>
    /\ config_data = <<>>
    /\ reported = None
    /\ lines = <<>>
    /\ i = 0
    /\ current_section = None
    /\ current_section_name = None
    /\ section_module = None
    /\ section_details = <<>>
    /\ file_data = <<>>
    /\ pc = "batch"
    /\ EmptyMapper

NextBatch ==
    \/ OpenFile
    \/ FailFile
    \/ SkipBlank
    \/ OpenSection
    \/ CloseSection
    \/ ExecBlock
    \/ ParamLine
    \/ IgnoreLine
    \/ FinishParse
    \/ StoreFile
    \/ FinishBatch

SpecBatch == InitBatch /\ [][NextBatch]_vars

(***************************************************************************)
(* A FlowMapper given more routes than the palette has colours             *)
(***************************************************************************)
MaxRoutes == 7

\* the name of the n-th route
RouteNo(n) == <<"r", <<"1", "2", "3", "4", "5", "6", "7", "8", "9">>[n]>>

PalettePaths ==
    { <<"a", " ", "=", ">", " ", "b">>,
      <<"a">>,
      <<"a", " ", "=", ">", " ", "b", " ", "=", ">", " ", "c">> }

\* a caller's flow_mapper.add_route(...) for one more route
CallAddNextRoute ==
    /\ pc = "api"
    /\ returned = <<>>
    /\ Len(routes) < MaxRoutes
    /\ \E path \in PalettePaths :
          routes' = AddRouteTo(routes, RouteNo(Len(routes) + 1), path, None, None)
    /\ UNCHANGED <<parserVars, pc, sections, sections_info, flows,
                   unconnected_sections, graphviz_content, returned, exprVars, batchVars>>

NextPalette ==
    \/ CallAddNextRoute
    \/ CallAnalyzeFlows

SpecPalette == InitMapper /\ [][NextPalette]_vars

(***************************************************************************)
(* Operators the properties are stated with                                *)
(***************************************************************************)

Max(a, b) == IF a > b THEN a ELSE b

\* the <<source, target>> pairs of the flows of one route, in flow order
FlowPairsOf(fl, route_name) ==
    LET OfRoute(f) == f.route = route_name
        mine == SelectSeq(fl, OfRoute)
    IN  [k \in 1..Len(mine) |-> <<mine[k].source, mine[k].target>>]

\* the stages of a path expression: the trimmed pieces between '=>'
StagesOf(path) == [k \in 1..Len(Split(path, sArrow)) |-> Strip(Split(path, sArrow)[k])]

\* the names a stage lists: its trimmed comma-separated pieces; an empty stage lists none
NamesOf(stage) ==
    IF stage = <<>> THEN <<>>
    ELSE [k \in 1..Len(Split(stage, sComma)) |-> Strip(Split(stage, sComma)[k])]

\* the names of the stages from..to, in stage order
RECURSIVE NamesOfStages(_, _, _)
NamesOfStages(stages, from, to) ==
    IF from > to THEN <<>>
    ELSE NamesOf(stages[from]) \o NamesOfStages(stages, from + 1, to)

\* the non-empty names of a stage
RealNamesOf(stage) ==
    LET NonEmpty(n) == n # <<>>
    IN  SelectSeq(NamesOf(stage), NonEmpty)

\* the cartesian product of two name lists, source-major
Product(srcs, dsts) ==
    [m \in 1..(Len(srcs) * Len(dsts)) |->
        <<srcs[((m - 1) \div Len(dsts)) + 1], dsts[((m - 1) % Len(dsts)) + 1]>>]

\* the products of the adjacent stages from stage k on, in stage order
RECURSIVE ProductsFrom(_, _)
ProductsFrom(stages, k) ==
    IF k >= Len(stages) THEN <<>>
    ELSE Product(RealNamesOf(stages[k]), RealNamesOf(stages[k + 1]))
         \o ProductsFrom(stages, k + 1)

\* two adjacent stages of the path both list two names or more
HasWideAdjacentStages(path) ==
    \E k \in 1..(Len(StagesOf(path)) - 1) :
        /\ Len(RealNamesOf(StagesOf(path)[k])) >= 2
        /\ Len(RealNamesOf(StagesOf(path)[k + 1])) >= 2

\* every name a path expression lists, in any stage
NamedIn(path) ==
    LET all == NamesOfStages(StagesOf(path), 1, Len(StagesOf(path)))
    IN  {all[k] : k \in 1..Len(all)}

Analyzed == returned # <<>>

PathABCD == <<"a", ",", " ", "b", " ", "=", ">", " ", "c", ",", " ", "d">>

(***************************************************************************)
(* C1: after analyze_flows, the flows of every route are exactly the       *)
(* consecutive pairs (c[i], c[i+1]) of c = inputs ++ processors ++         *)
(* outputs, in list order: max(0, n - 1) flows for n components; the path  *)
(* 'a, b => c, d' gives a->b, b->c, c->d and nothing else.                 *)
(***************************************************************************)
C1_PairwiseFlows ==
    Analyzed =>
        \A k \in 1..Len(routes) :
            LET r == routes[k].v
                c == r.inputs \o r.processors \o r.outputs
                got == FlowPairsOf(flows, routes[k].k)
            IN  /\ Len(got) = Max(0, Len(c) - 1)
                /\ \A j \in 1..Len(got) : got[j] = <<c[j], c[j + 1]>>
                /\ r.path = PathABCD =>
                      got = << <<(<<"a">>), (<<"b">>)>>, <<(<<"b">>), (<<"c">>)>>,
                               <<(<<"c">>), (<<"d">>)>> >>
                /\ \A f \in 1..Len(flows) : DictHas(routes, flows[f].route)

C1_Witness ==
    /\ Analyzed
    /\ \E k \in 1..Len(routes) :
          /\ routes[k].v.path = PathABCD
          /\ Len(FlowPairsOf(flows, routes[k].k)) = 3
    /\ \E k \in 1..Len(routes) : Len(FlowPairsOf(flows, routes[k].k)) = 0

(***************************************************************************)
(* C2: a registered route whose path contains '=>' has as inputs the       *)
(* trimmed comma-split names of the first stage, as outputs those of the   *)
(* last stage and as processors those of every stage strictly between, in *)
(* stage order; a route whose path contains no '=>' is registered with     *)
(* inputs, processors and outputs all empty and produces no flow.          *)
(***************************************************************************)
C2_RoutePathStages ==
    \A k \in 1..Len(routes) :
        LET r == routes[k].v
            st == StagesOf(r.path)
        IN  IF Len(st) >= 2
            THEN /\ r.inputs = NamesOf(st[1])
                 /\ r.outputs = NamesOf(st[Len(st)])
                 /\ r.processors = NamesOfStages(st, 2, Len(st) - 1)
            ELSE /\ r.inputs = <<>>
                 /\ r.processors = <<>>
                 /\ r.outputs = <<>>
                 /\ Analyzed => FlowPairsOf(flows, routes[k].k) = <<>>

C2_Witness ==
    /\ Analyzed
    /\ \E k \in 1..Len(routes) :
          /\ routes[k].v.processors = << <<"c">> >>
          /\ routes[k].v.inputs = << <<"a">>, <<"b">> >>
          /\ routes[k].v.outputs = << <<"d">>, <<"e">> >>
    /\ \E k \in 1..Len(routes) : routes[k].v.path = <<"a">>

(***************************************************************************)
(* C3: _parse_path_expression returns, for every adjacent pair of stages   *)
(* in stage order, every (source, dest) combination of the two stages'     *)
(* names, source-major; when two adjacent stages both list two names or    *)
(* more, that result differs from the flows analyze_flows builds for a     *)
(* route with the same path.                                               *)
(***************************************************************************)
C3_ExpandPairsCartesian ==
    expr_arg # None =>
        /\ expr_pairs = ProductsFrom(StagesOf(expr_arg), 1)
        /\ HasWideAdjacentStages(expr_arg) =>
              \A k \in 1..Len(routes) :
                  routes[k].v.path = expr_arg =>
                      FlowPairsOf(flows, routes[k].k) # expr_pairs

C3_Witness ==
    /\ expr_arg = PathABCD
    /\ expr_pairs = << <<(<<"a">>), (<<"c">>)>>, <<(<<"a">>), (<<"d">>)>>,
                       <<(<<"b">>), (<<"c">>)>>, <<(<<"b">>), (<<"d">>)>> >>
    /\ \E k \in 1..Len(routes) :
          /\ routes[k].v.path = PathABCD
          /\ Len(FlowPairsOf(flows, routes[k].k)) = 3

(***************************************************************************)
(* C4: after analyze_flows, unconnected_sections is the set of declared    *)
(* section names minus the sources and targets of the flows; a declared    *)
(* section named in no route's path is unconnected and is the source or    *)
(* target of no flow.                                                      *)
(***************************************************************************)
C4_Unconnected ==
    Analyzed =>
        /\ unconnected_sections =
              DictKeys(sections_info)
                 \ {n \in DictKeys(sections_info) :
                       \E f \in 1..Len(flows) : flows[f].source = n \/ flows[f].target = n}
        /\ returned[Len(returned)].unconnected = unconnected_sections
        /\ \A n \in DictKeys(sections_info) :
              (\A k \in 1..Len(routes) : n \notin NamedIn(routes[k].v.path)) =>
                  /\ n \in unconnected_sections
                  /\ \A f \in 1..Len(flows) : flows[f].source # n /\ flows[f].target # n

C4_Witness ==
    /\ Analyzed
    /\ flows # <<>>
    /\ DictKeys(sections_info) = {<<"a">>, <<"x">>}
    /\ unconnected_sections = {<<"x">>}

(***************************************************************************)
(* C9: analyze_flows run twice in a row on the same sections and routes    *)
(* returns the same value both times: the same ordered flows, sections     *)
(* mapping, unconnected set, stats and diagram text.                       *)
(***************************************************************************)
C9_AnalysisIdempotent ==
    \A k \in 1..(Len(returned) - 1) : returned[k + 1] = returned[k]

C9_Witness ==
    /\ Len(returned) = 2
    /\ Len(flows) >= 3
    /\ Len(sections_info) = 2
    /\ unconnected_sections # {}

(***************************************************************************)
(* C10: for every analyzed graph, whatever the section type names,         *)
(* stats.total_flows = len(flows) and the per-type counts sum to           *)
(* stats.total_sections, the number of declared sections.                  *)
(***************************************************************************)
RECURSIVE SumOver(_, _)
SumOver(stats, types) ==
    IF types = {} THEN 0
    ELSE LET t == CHOOSE t \in types : TRUE
         IN  DictGet(stats, t) + SumOver(stats, types \ {t})

C10_StatsRoundTrip ==
    Analyzed =>
        LET out == returned[Len(returned)]
            types == {sections_info[k].v.type : k \in 1..Len(sections_info)}
        IN  /\ DictGet(out.stats, sTotalFlows) = Len(out.flows)
            /\ DictGet(out.stats, sTotalSections) = Len(sections_info)
            /\ SumOver(out.stats, types) = DictGet(out.stats, sTotalSections)

(***************************************************************************)
(* Operators the parser's properties are stated with                       *)
(***************************************************************************)

\* the cursors of the lines read so far
ReadSoFar == 0..((IF i < Len(lines) THEN i ELSE Len(lines)) - 1)

\* one layer of surrounding quotes, "..." or '...', taken off a value
Unquoted(v) ==
    IF Len(v) >= 1 /\ v[1] = v[Len(v)] /\ v[1] \in {"\"", "'"}
    THEN Slice(v, 2, Len(v) - 1) ELSE v

\* the first cursor from `from` on whose line satisfies Stop, Len(ls) if none
FirstCursor(ls, from, Stop(_)) ==
    CHOOSE j \in from..Len(ls) :
        /\ j = Len(ls) \/ Stop(LineAt(ls, j))
        /\ \A h \in from..(j - 1) : ~Stop(LineAt(ls, h))

\* a set of cursors in increasing order
RECURSIVE Ascending(_)
Ascending(set) ==
    IF set = {} THEN <<>>
    ELSE LET least == CHOOSE j \in set : \A h \in set : j <= h
         IN  <<least>> \o Ascending(set \ {least})

\* the non-blank lines at the cursors from..to-1, trimmed, through Val
NonBlank(ls, from, to, Val(_)) ==
    LET at == Ascending({j \in from..(to - 1) : LineAt(ls, j) # <<>>})
    IN  [k \in 1..Len(at) |-> Val(LineAt(ls, at[k]))]

\* a line that ends a run of bare Exec lines: not blank and no Exec line
EndsExecRun(line) == line # <<>> /\ ~MatchNextExec(line).ok

ExecValueOf(line) == Strip(MatchNextExec(line).value)

Verbatim(line) == line

\* the loop is about to read a bare Exec line inside an open section
AtExecRun ==
    /\ InParse
    /\ Branch(lines, i, current_section) = "param"
    /\ Lower(MatchParam(LineAt(lines, i)).name) = sExecLower

\* the loop is about to read <Exec> inside an open section, and the block has
\* its </Exec> and at least one content line
AtClosedExecBlock ==
    /\ InParse
    /\ Branch(lines, i, current_section) = "exec"
    /\ Truthy(current_section)
    /\ FirstCursor(lines, i + 1, MatchExecClose) < Len(lines)
    /\ NonBlank(lines, i + 1, FirstCursor(lines, i + 1, MatchExecClose), Verbatim) # <<>>

(***************************************************************************)
(* C5 as stated: after parsing, the sectionName of every emitted record is *)
(* the name of a registered section (one whose closing tag was reached).   *)
(***************************************************************************)
C5_RecordsOfRegisteredSections ==
    pc = "done" =>
        \A k \in 1..Len(file_data) : file_data[k].Nom_Section \in DictKeys(sections)

(***************************************************************************)
(* C5 amended: the section type and name of every emitted record are those *)
(* of an opening tag read earlier in the document, closed or not; every    *)
(* registered section has an opening tag followed by a closing tag among   *)
(* the lines read, so a section left unclosed at end of input is never     *)
(* registered, although its records are emitted.                           *)
(***************************************************************************)
C5_RecordsOfOpenedSections ==
    /\ \A k \in 1..Len(file_data) :
          \E n \in ReadSoFar :
              /\ MatchSection(LineAt(lines, n)).ok
              /\ MatchSection(LineAt(lines, n)).name = file_data[k].Nom_Section
              /\ MatchSection(LineAt(lines, n)).type = file_data[k].Section
    /\ \A name \in DictKeys(sections) :
          \E n \in ReadSoFar, m \in ReadSoFar :
              /\ n < m
              /\ MatchSection(LineAt(lines, n)).ok
              /\ MatchSection(LineAt(lines, n)).name = name
              /\ MatchClose(LineAt(lines, m))

C5_Witness ==
    /\ pc = "done"
    /\ file_data # <<>>
    /\ Truthy(current_section)
    /\ \E k \in 1..Len(file_data) : file_data[k].Nom_Section \notin DictKeys(sections)

(***************************************************************************)
(* C6 as stated: inside an open section, a run of k >= 1 consecutive bare  *)
(* Exec lines (blank lines between them skipped) produces exactly one      *)
(* record, named by the first line's parameter, whose value is the k       *)
(* values joined with ' | '; the cursor then stands after the run.         *)
(***************************************************************************)
C6_ExecMergeJoined ==
    [][AtExecRun =>
          LET stop == FirstCursor(lines, i + 1, EndsExecRun)
              vals == NonBlank(lines, i, stop, ExecValueOf)
          IN  /\ file_data' = Append(file_data,
                    Record(current_section, current_section_name,
                           MatchParam(LineAt(lines, i)).name, Join(vals, sPipe)))
              /\ i' = stop]_vars

(***************************************************************************)
(* C6 amended: as stated, except that the value is the k values joined     *)
(* with ' | ' and then, like any parameter value, relieved of one layer of *)
(* surrounding quotes when the joined text starts and ends with the same   *)
(* quote character.                                                        *)
(***************************************************************************)
C6_ExecMergeJoinedUnquoted ==
    [][AtExecRun =>
          LET stop == FirstCursor(lines, i + 1, EndsExecRun)
              vals == NonBlank(lines, i, stop, ExecValueOf)
          IN  /\ Len(vals) >= 1
              /\ file_data' = Append(file_data,
                    Record(current_section, current_section_name,
                           MatchParam(LineAt(lines, i)).name,
                           Unquoted(Join(vals, sPipe))))
              /\ i' = stop
              /\ \A j \in (i + 1)..(stop - 1) :
                    LineAt(lines, j) = <<>> \/ MatchNextExec(LineAt(lines, j)).ok]_vars

C6_Witness ==
    \E k \in 1..Len(file_data) :
        /\ file_data[k].Parametre = sExecLower
        /\ file_data[k].Valeur = <<"y", "\"", " ", "|", " ", "\"", "y">>

(***************************************************************************)
(* C7: inside an open section, <Exec>, n >= 1 non-blank content lines and  *)
(* </Exec> produce exactly one record, with parameter 'Exec' and the       *)
(* trimmed content lines joined by newline as value; the content lines are *)
(* not read as tags or parameters (no section is opened, closed or         *)
(* registered, no attribute or route is recorded), and the cursor passes   *)
(* </Exec> with the enclosing section still open.                          *)
(***************************************************************************)
C7_TaggedExecBlock ==
    [][AtClosedExecBlock =>
          LET close == FirstCursor(lines, i + 1, MatchExecClose)
              content == NonBlank(lines, i + 1, close, Verbatim)
          IN  /\ file_data' = Append(file_data,
                    Record(current_section, current_section_name, sExec,
                           Join(content, sNewline)))
              /\ i' = close + 1
              /\ UNCHANGED <<current_section, current_section_name, section_module,
                             section_details, sections, sections_info, routes>>]_vars

C7_Witness ==
    /\ pc = "parse"
    /\ i = 5
    /\ current_section = sInput
    /\ sections = <<>>
    /\ file_data = << Record(sInput, <<"a">>, sExec,
                             CloseTag(sInput) \o sNewline \o ParamText(sExec, <<"x">>)) >>

(***************************************************************************)
(* C8: when the Path line of a Route section is read, the route is         *)
(* registered with the last Priority and Condition values read earlier in  *)
(* that same section (absent when there is none); a Priority or Condition  *)
(* line read after Path changes no registered route, and no value of a     *)
(* previous section reaches the route.                                     *)
(* (In the documents of SpecRoutes no line between an opening tag and a    *)
(* later parameter line lies inside an <Exec> block.)                      *)
(***************************************************************************)
SectionStart(ls, n) ==
    CHOOSE k \in 0..(n - 1) :
        /\ MatchSection(LineAt(ls, k)).ok
        /\ \A h \in (k + 1)..(n - 1) : ~MatchSection(LineAt(ls, h)).ok

\* the value of the last parameter line named `name` at the cursors from..to-1, or None
LastValue(ls, name, from, to) ==
    LET hits == {j \in from..(to - 1) :
                    MatchParam(LineAt(ls, j)).ok /\ MatchParam(LineAt(ls, j)).name = name}
    IN  IF hits = {} THEN None
        ELSE LET last == CHOOSE j \in hits : \A h \in hits : h <= j
             IN  Unquoted(Strip(MatchParam(LineAt(ls, last)).value))

AtParam(name) ==
    /\ InParse
    /\ Branch(lines, i, current_section) = "param"
    /\ MatchParam(LineAt(lines, i)).name = name

C8_PriorityBeforePath ==
    [][/\ (AtParam(sPath) /\ current_section = sRoute) =>
            LET start == SectionStart(lines, i)
                r == DictGet(routes', current_section_name)
            IN  /\ DictHas(routes', current_section_name)
                /\ r.priority = LastValue(lines, sPriority, start + 1, i)
                /\ r.condition = LastValue(lines, sCondition, start + 1, i)
                /\ r.path = Unquoted(Strip(MatchParam(LineAt(lines, i)).value))
       /\ (AtParam(sPriority) \/ AtParam(sCondition)) => routes' = routes]_vars

C8_Witness ==
    /\ current_section = sRoute
    /\ DictHas(section_details, sPriority)
    /\ DictHas(section_details, sCondition)
    /\ DictHas(routes, current_section_name)
    /\ DictGet(routes, current_section_name).priority = None
    /\ DictGet(routes, current_section_name).condition = <<"c">>

(***************************************************************************)
(* C11: unresolved references                                              *)
(***************************************************************************)

\* the endpoint of a flow (its name, type and module) is resolved against the sections
Resolved(name, type, module) ==
    IF DictHas(sections, name)
    THEN type = DictGet(sections, name).type
    ELSE type = sUnknown /\ module = sUnknown

\* C11: in every flow, an endpoint whose name matches no declared section carries
\* type 'Unknown' and module 'Unknown', and an endpoint that is a declared section
\* carries that section's declared type.
C11_UnresolvedUnknown ==
    \A k \in 1..Len(flows) :
        /\ Resolved(flows[k].source, flows[k].source_type, flows[k].source_module)
        /\ Resolved(flows[k].target, flows[k].target_type, flows[k].target_module)

\* a flow from a declared section to a name that no section declares
C11_Witness ==
    \E k \in 1..Len(flows) :
        /\ DictHas(sections, flows[k].source)
        /\ flows[k].source_type = sInput
        /\ ~DictHas(sections, flows[k].target)
        /\ flows[k].target_type = sUnknown
        /\ flows[k].target_module = sUnknown

(***************************************************************************)
(* C12: the modules of a flow                                              *)
(***************************************************************************)

\* C12: in every flow, sourceModule and targetModule are each a module string or
\* 'Unknown', also when the endpoint is a declared section without a Module.
C12_ModuleIsString ==
    \A k \in 1..Len(flows) :
        /\ flows[k].source_module # None
        /\ flows[k].target_module # None

(***************************************************************************)
(* C13: quote stripping                                                    *)
(***************************************************************************)

\* a value without its surrounding pair of matching quotes, "..." or '...'; a value
\* that holds no such pair is left as it is
UnquotedBalanced(v) ==
    IF Len(v) >= 2 /\ v[1] = v[Len(v)] /\ v[1] \in {"\"", "'"}
    THEN Slice(v, 2, Len(v) - 1) ELSE v

\* the loop is about to read a parameter line, no Exec line, inside an open section
AtPlainParam ==
    /\ InParse
    /\ Branch(lines, i, current_section) = "param"
    /\ Lower(MatchParam(LineAt(lines, i)).name) # sExecLower

\* C13: a parameter value enclosed in a pair of matching quotes is recorded with
\* exactly that one layer removed; a value with an unbalanced or mismatched quote
\* is recorded unchanged, quote character included.
C13_QuoteStripping ==
    [][AtPlainParam =>
          file_data'[Len(file_data')].Valeur =
              UnquotedBalanced(Strip(MatchParam(LineAt(lines, i)).value))]_vars

(***************************************************************************)
(* Sections as the document declares them (documents without Exec lines    *)
(* and <Exec> blocks: every line is read by the main loop)                 *)
(***************************************************************************)

NoExec(ls) ==
    \A k \in 0..(Len(ls) - 1) :
        /\ ~MatchExecOpen(LineAt(ls, k))
        /\ ~MatchNextExec(LineAt(ls, k)).ok

\* an opening tag before cursor c has neither a closing tag nor another opening
\* tag between itself and c
ContextOpenAt(ls, c) ==
    \E k \in 0..(c - 1) :
        /\ MatchSection(LineAt(ls, k)).ok
        /\ \A h \in (k + 1)..(c - 1) :
              ~MatchSection(LineAt(ls, h)).ok /\ ~MatchClose(LineAt(ls, h))

\* the cursors before n of the closing tags that close a block
ClosedAt(ls, n) ==
    {c \in 0..(n - 1) : MatchClose(LineAt(ls, c)) /\ ContextOpenAt(ls, c)}

\* the parameters of the lines at the cursors from..to-1, last value of each name
RECURSIVE AttributesOf(_, _, _)
AttributesOf(ls, from, to) ==
    IF from >= to THEN <<>>
    ELSE LET before == AttributesOf(ls, from, to - 1)
             p == MatchParam(LineAt(ls, to - 1))
         IN  IF p.ok THEN DictPut(before, p.name, Unquoted(Strip(p.value))) ELSE before

\* the block closed at cursor c: its opening tag and its own parameter lines
BlockAt(ls, c) ==
    LET start == SectionStart(ls, c)
    IN  [name |-> MatchSection(LineAt(ls, start)).name,
         type |-> MatchSection(LineAt(ls, start)).type,
         module |-> LastValue(ls, sModule, start + 1, c),
         details |-> AttributesOf(ls, start + 1, c)]

\* the section entry is the one of the block
EntryOf(entry, block) ==
    /\ entry.type = block.type
    /\ entry.module = block.module
    /\ entry.details = block.details

AtOpen == InParse /\ MatchSection(LineAt(lines, i)).ok

AtClose == InParse /\ MatchClose(LineAt(lines, i))

ContextOpen == current_section # None /\ current_section_name # None

(***************************************************************************)
(* C14: no nesting                                                         *)
(***************************************************************************)

\* C14: an opening tag read while a context is open replaces that context (type and
\* name of the new tag, module and attribute accumulator reset) and registers
\* nothing; every registered section is a block in which no other opening tag stands
\* between the opening tag and the closing tag, so a replaced section is never
\* registered by a later closing tag.
C14_NoNesting ==
    /\ [][AtOpen =>
            /\ current_section' = MatchSection(LineAt(lines, i)).type
            /\ current_section_name' = MatchSection(LineAt(lines, i)).name
            /\ section_module' = None
            /\ section_details' = <<>>
            /\ sections' = sections
            /\ sections_info' = sections_info]_vars
    /\ [](NoExec(lines) =>
            \A k \in 1..Len(sections) :
                \E c \in ClosedAt(lines, i) :
                    /\ BlockAt(lines, c).name = sections[k].k
                    /\ EntryOf(sections[k].v, BlockAt(lines, c)))

\* '<Input a>', 'Module m' replaced by '<Output b>', 'Host h' and then closed: only
\* b is registered, without a module
C14_Witness ==
    /\ Len(lines) >= 5
    /\ lines[1] = <<"<", "I", "n", "p", "u", "t", " ", "a", ">">>
    /\ lines[2] = <<"M", "o", "d", "u", "l", "e", " ", "m">>
    /\ MatchSection(LineAt(lines, 2)).ok
    /\ i = 5
    /\ DictKeys(sections) = {<<"b">>}
    /\ DictGet(sections, <<"b">>).module = None
    /\ DictGet(sections, <<"b">>).type = sOutput
    /\ DictKeys(DictGet(sections, <<"b">>).details) = {<<"H", "o", "s", "t">>}

(***************************************************************************)
(* C15: the closing tag                                                    *)
(***************************************************************************)

\* C15: a line matching '</Identifier>' read by the main loop, whatever its
\* identifier, registers the open context as a Section (name, type, module, snapshot
\* of the attributes) and clears the context; with no open context it registers
\* nothing; in both cases routes and records are left as they are.
C15_ClosingTag ==
    [][AtClose =>
          /\ IF ContextOpen
             THEN /\ DictHas(sections', current_section_name)
                  /\ DictGet(sections', current_section_name) =
                        [type |-> current_section, module |-> section_module,
                         details |-> section_details, connected_routes |-> <<>>]
                  /\ DictHas(sections_info', current_section_name)
                  /\ DictGet(sections_info', current_section_name).type = current_section
                  /\ DictGet(sections_info', current_section_name).details = section_details
                  /\ \A n \in DictKeys(sections) \ {current_section_name} :
                        DictGet(sections', n) = DictGet(sections, n)
                  /\ DictKeys(sections') = DictKeys(sections) \cup {current_section_name}
             ELSE sections' = sections /\ sections_info' = sections_info
          /\ current_section' = None
          /\ current_section_name' = None
          /\ section_module' = None
          /\ section_details' = <<>>
          /\ routes' = routes
          /\ file_data' = file_data]_vars

\* '<Output a>' closed by '</x>' has registered a, and a closing tag was then read
\* with no open context
C15_Witness ==
    /\ i >= 3
    /\ LineAt(lines, i - 2) = <<"<", "/", "x", ">">>
    /\ MatchClose(LineAt(lines, i - 1))
    /\ DictKeys(sections) = {<<"a">>}
    /\ DictGet(sections, <<"a">>).type = sOutput
    /\ current_section = None

(***************************************************************************)
(* C16: redeclaration of a section                                         *)
(***************************************************************************)

\* the cursor of the last block closed before n that carries the name
LastClosed(ls, n, name) ==
    CHOOSE c \in ClosedAt(ls, n) :
        /\ BlockAt(ls, c).name = name
        /\ \A d \in ClosedAt(ls, n) : BlockAt(ls, d).name = name => d <= c

ClosedNames(ls, n) == {BlockAt(ls, c).name : c \in ClosedAt(ls, n)}

\* C16: the sections mapping holds exactly one entry for each name of a closed block,
\* with the type, module and attributes of the block of that name closed last, and
\* the section count of the analysis counts each name once.
C16_LastWriteWins ==
    NoExec(lines) =>
        /\ DictKeys(sections) = ClosedNames(lines, i)
        /\ Len(sections) = Cardinality(ClosedNames(lines, i))
        /\ \A k \in 1..Len(sections) :
              EntryOf(sections[k].v, BlockAt(lines, LastClosed(lines, i, sections[k].k)))
        /\ DictKeys(sections_info) = ClosedNames(lines, i)
        /\ Len(sections_info) = Cardinality(ClosedNames(lines, i))
        /\ \A k \in 1..Len(sections_info) :
              sections_info[k].v.type =
                  BlockAt(lines, LastClosed(lines, i, sections_info[k].k)).type
        /\ pc = "done" =>
              DictGet(returned[1].stats, sTotalSections) = Cardinality(ClosedNames(lines, i))

\* '<Input a>', 'Module m', '</Input>' and then '<Output a>', '</x>': one entry for
\* a, of type Output and without a module
C16_Witness ==
    /\ pc = "done"
    /\ Cardinality({c \in ClosedAt(lines, i) : BlockAt(lines, c).name = <<"a">>}) = 2
    /\ BlockAt(lines, 2).type = sInput
    /\ BlockAt(lines, 2).module = <<"m">>
    /\ Len(sections) = 1
    /\ DictGet(sections, <<"a">>).type = sOutput
    /\ DictGet(sections, <<"a">>).module = None
    /\ DictGet(returned[1].stats, sTotalSections) = 1

(***************************************************************************)
(* C19: the order of the flows                                             *)
(***************************************************************************)

\* the cursors before n of the Path lines read inside a Route context: the
\* registrations of routes, in the documents without Exec lines
RegCursors(ls, n) ==
    {j \in 0..(n - 1) :
        /\ MatchParam(LineAt(ls, j)).ok
        /\ MatchParam(LineAt(ls, j)).name = sPath
        /\ ContextOpenAt(ls, j)
        /\ MatchSection(LineAt(ls, SectionStart(ls, j))).type = sRoute}

RouteNameAt(ls, j) == MatchSection(LineAt(ls, SectionStart(ls, j))).name

PathAt(ls, j) == Unquoted(Strip(MatchParam(LineAt(ls, j)).value))

\* the first and the last registration of the route registered at cursor j
FirstReg(ls, n, j) ==
    CHOOSE f \in RegCursors(ls, n) :
        /\ RouteNameAt(ls, f) = RouteNameAt(ls, j)
        /\ \A g \in RegCursors(ls, n) : RouteNameAt(ls, g) = RouteNameAt(ls, j) => f <= g

LastReg(ls, n, j) ==
    CHOOSE f \in RegCursors(ls, n) :
        /\ RouteNameAt(ls, f) = RouteNameAt(ls, j)
        /\ \A g \in RegCursors(ls, n) : RouteNameAt(ls, g) = RouteNameAt(ls, j) => g <= f

\* the flattened component list of a path: the names of all its stages in order
Flattened(path) ==
    IF Len(StagesOf(path)) >= 2
    THEN NamesOfStages(StagesOf(path), 1, Len(StagesOf(path)))
    ELSE <<>>

\* <<route, source, target>> for the adjacent components of a path, in order
TriplesOf(name, path) ==
    LET c == Flattened(path)
    IN  [k \in 1..Max(0, Len(c) - 1) |-> <<name, c[k], c[k + 1]>>]

FlowTriples(fl) == [k \in 1..Len(fl) |-> <<fl[k].route, fl[k].source, fl[k].target>>]

\* the flows of the routes registered at the cursors order[k..], each route with
\* the path of its last registration
RECURSIVE FlowsInOrder(_, _, _, _)
FlowsInOrder(ls, n, order, k) ==
    IF k > Len(order) THEN <<>>
    ELSE TriplesOf(RouteNameAt(ls, order[k]), PathAt(ls, LastReg(ls, n, order[k])))
         \o FlowsInOrder(ls, n, order, k + 1)

\* C19 as stated: the flows follow the order in which the document declares the
\* routes they come from (a route registered again is declared by its last Path
\* line), and within a route the positions in the flattened component list.
C19_FlowsInDeclarationOrder ==
    (pc = "done" /\ NoExec(lines)) =>
        FlowTriples(flows) =
            FlowsInOrder(lines, i,
                Ascending({LastReg(lines, i, j) : j \in RegCursors(lines, i)}), 1)

\* C19: the flows follow the order in which the route names were first registered,
\* each route with the path of its last registration, and within a route the
\* positions in the flattened component list.
C19_FlowsInFirstRegistrationOrder ==
    (pc = "done" /\ NoExec(lines)) =>
        FlowTriples(flows) =
            FlowsInOrder(lines, i,
                Ascending({FirstReg(lines, i, j) : j \in RegCursors(lines, i)}), 1)

\* route r registered, then s, then r again: the flows of r stand before those of s
C19_Witness ==
    /\ pc = "done"
    /\ NoExec(lines)
    /\ Cardinality(RegCursors(lines, i)) = 3
    /\ \E f, g, h \in RegCursors(lines, i) :
          /\ f < g /\ g < h
          /\ RouteNameAt(lines, f) = RouteNameAt(lines, h)
          /\ RouteNameAt(lines, g) # RouteNameAt(lines, f)
          /\ PathAt(lines, f) # PathAt(lines, h)
    /\ Len(flows) = 3
    /\ flows[1].route = <<"r">>
    /\ flows[2].route = <<"s">>

(***************************************************************************)
(* C20: connected_routes                                                   *)
(***************************************************************************)

\* how many times a name stands in a list
Occurrences(list, name) == Cardinality({k \in 1..Len(list) : list[k] = name})

\* one entry per appearance of the name in the components of the routes k.., in
\* route order
RECURSIVE AppearancesIn(_, _, _)
AppearancesIn(rts, name, k) ==
    IF k > Len(rts) THEN <<>>
    ELSE [m \in 1..Occurrences(rts[k].v.inputs \o rts[k].v.processors \o rts[k].v.outputs,
                               name) |-> rts[k].k]
         \o AppearancesIn(rts, name, k + 1)

\* C20: after analyze_flows has run any number of times, the connected_routes of
\* each declared section holds exactly one entry per appearance of the section's
\* name in a route's inputs ++ processors ++ outputs, in route order.
C20_ConnectedRoutesRecomputed ==
    Analyzed =>
        \A k \in 1..Len(sections) :
            sections[k].v.connected_routes = AppearancesIn(routes, sections[k].k, 1)

(***************************************************************************)
(* C17, C18: a batch of files                                              *)
(***************************************************************************)

Readable(k) == config_files[k].kind = "text"

\* C17: parsing a missing or unreadable file returns an empty record list and an
\* empty flow graph, and every other file of the batch is still parsed and its
\* records and graph are stored, whatever the position of the failing file.
C17_FailureIsolated ==
    /\ (pc = "done" /\ file_no >= 1 /\ ~Readable(file_no)) =>
            /\ file_data = <<>>
            /\ MapperValue = [routes |-> <<>>, sections |-> <<>>, sections_info |-> <<>>,
                              flows |-> <<>>, unconnected_sections |-> {},
                              graphviz_content |-> <<>>]
    /\ pc = "finished" =>
            \A k \in 1..Len(config_files) :
                Readable(k) =>
                    /\ DictHas(files_data, Stems[k])
                    /\ DictHas(flow_mappers, Stems[k])

\* C18: a document is counted as processed if and only if it was read and parsed
\* without an I/O failure, also when it yields no parameter record.
C18_ProcessedIffRead ==
    pc = "finished" =>
        /\ reported = Cardinality({k \in 1..Len(config_files) : Readable(k)})
        /\ \A k \in 1..Len(config_files) : Readable(k) <=> DictHas(files_data, Stems[k])

(***************************************************************************)
(* C21: parsing completes before analysis                                  *)
(***************************************************************************)

\* C21: no flow exists while the document is being parsed; after the parse every
\* route has its flows, and the type and module of every flow endpoint are resolved
\* against the complete section table, also for a section declared later in the
\* document than the route that names it.
C21_AnalysisAfterParse ==
    /\ pc = "parse" => flows = <<>> /\ returned = <<>>
    /\ pc = "done" =>
          /\ \A k \in 1..Len(routes) :
                Len(FlowPairsOf(flows, routes[k].k)) =
                    Max(0, Len(AllComponents(routes[k].v)) - 1)
          /\ \A k \in 1..Len(flows) :
                /\ Resolved(flows[k].source, flows[k].source_type, flows[k].source_module)
                /\ Resolved(flows[k].target, flows[k].target_type, flows[k].target_module)
                /\ DictHas(sections, flows[k].source) =>
                      flows[k].source_module = DictGet(sections, flows[k].source).module

\* '<Route r>', 'Path a => b' and only then '<Input a>', 'Module m', '</Input>': the
\* flow a -> b has source type Input and source module m
C21_Witness ==
    /\ pc = "done"
    /\ Len(lines) = 5
    /\ MatchSection(LineAt(lines, 0)).type = sRoute
    /\ MatchParam(LineAt(lines, 1)).name = sPath
    /\ MatchSection(LineAt(lines, 2)).name = <<"a">>
    /\ MatchClose(LineAt(lines, 4))
    /\ Len(flows) = 1
    /\ flows[1].source = <<"a">>
    /\ flows[1].source_type = sInput
    /\ flows[1].source_module = <<"m">>
    /\ flows[1].target_type = sUnknown

(***************************************************************************)
(* C22: the legend of the diagram                                          *)
(***************************************************************************)

\* the section types the legend of a diagram lists
LegendTypes(gv) == {gv[k].type : k \in {n \in 1..Len(gv) : gv[n].kind = "legend"}}

\* C22: the legend holds one entry for every distinct section type present among the
\* declared sections, whatever the type, no entry for a type that is not present,
\* and the fixed 'disconnected' entry.
C22_LegendListsTypes ==
    Analyzed =>
        /\ LegendTypes(graphviz_content) =
              {sections_info[k].v.type : k \in 1..Len(sections_info)}
        /\ \A t \in LegendTypes(graphviz_content) :
              Cardinality({n \in 1..Len(graphviz_content) :
                              graphviz_content[n].kind = "legend"
                              /\ graphviz_content[n].type = t}) = 1
        /\ \E n \in 1..Len(graphviz_content) :
              graphviz_content[n].kind = "legend_disconnected"

(***************************************************************************)
(* C23: the colours of the edges                                           *)
(***************************************************************************)

\* the edge lines of a diagram, in order
EdgesOf(gv) ==
    LET IsEdge(l) == l.kind = "edge"
    IN  SelectSeq(gv, IsEdge)

\* how many distinct routes the flows show up to the first flow of the route (the
\* route included): 1 for the route seen first
SeenRank(fl, route) ==
    LET first == CHOOSE j \in 1..Len(fl) :
                    fl[j].route = route /\ \A h \in 1..(j - 1) : fl[h].route # route
    IN  Cardinality({fl[h].route : h \in 1..first})

\* C23: one edge per flow, in flow order; the k-th distinct route in first-seen
\* order (k from 0) has palette entry k mod 6 on all its edges, so the 7th route
\* has the colour of the 1st.
C23_EdgeColours ==
    Analyzed =>
        LET edges == EdgesOf(graphviz_content)
        IN  /\ Len(edges) = Len(flows)
            /\ \A k \in 1..Len(edges) :
                  /\ edges[k].source = flows[k].source
                  /\ edges[k].destination = flows[k].target
                  /\ edges[k].route = flows[k].route
                  /\ edges[k].color =
                        <<"#FF6B6B", "#4ECDC4", "#45B7D1", "#96CEB4", "#FFEAA7", "#DDA0DD">>
                            [((SeenRank(flows, flows[k].route) - 1) % 6) + 1]
            /\ \A k, h \in 1..Len(edges) :
                  /\ edges[k].route = edges[h].route => edges[k].color = edges[h].color
                  /\ SeenRank(flows, flows[k].route) = SeenRank(flows, flows[h].route) + 6
                        => edges[k].color = edges[h].color

\* seven routes with flows, one of them with two: the edges of the 7th route have
\* the colour of the 1st
C23_Witness ==
    /\ Analyzed
    /\ Cardinality({flows[k].route : k \in 1..Len(flows)}) = 7
    /\ Len(flows) > 7
    /\ \E k \in 1..Len(flows) :
          /\ SeenRank(flows, flows[k].route) = 7
          /\ EdgesOf(graphviz_content)[k].color = "#FF6B6B"
          /\ EdgesOf(graphviz_content)[1].color = "#FF6B6B"
          /\ flows[k].route # flows[1].route

(***************************************************************************)
(* C24: documents are parsed in isolation                                  *)
(***************************************************************************)

\* the file the loop has taken has the text of the first file of the directory,
\* which was parsed before any other and whose result was stored
SameAsFirst ==
    /\ file_no >= 2
    /\ Readable(file_no)
    /\ Readable(1)
    /\ config_files[file_no].text = config_files[1].text
    /\ DictHas(files_data, Stems[1])

C25_ParseTerminates ==
    /\ [][pc = "parse" => (i' > i \/ (pc' = "done" /\ i' = i /\ i >= Len(lines)))]_vars
    /\ <>(pc = "done")

\* the parse has ended on a document whose last block is an <Exec> without its
\* </Exec>, after a merge of two bare Exec lines
C25_Witness ==
    /\ pc = "done"
    /\ i = Len(lines) + 1
    /\ Len(file_data) = 2
    /\ file_data[1].Parametre = sExec
    /\ file_data[1].Valeur = <<"x", " ", "|", " ", "\"", "y", "\"">>
    /\ file_data[2].Valeur = <<"y", "\n", "<", "I", "n", "p", "u", "t", " ", "b", ">">>

(***************************************************************************)
(* C26: noise lines                                                        *)
(***************************************************************************)

\* a non-blank line that is no opening tag, no closing tag, no <Exec> and no
\* parameter assignment
IsNoise(line) ==
    /\ line # <<>>
    /\ ~MatchSection(line).ok
    /\ ~MatchClose(line)
    /\ ~MatchExecOpen(line)
    /\ ~MatchParam(line).ok

\* the loop is about to read a noise line, or a parameter line with no open context
AtNoise ==
    /\ InParse
    /\ \/ IsNoise(LineAt(lines, i))
       \/ /\ MatchParam(LineAt(lines, i)).ok
          /\ ~MatchSection(LineAt(lines, i)).ok
          /\ ~MatchClose(LineAt(lines, i))
          /\ ~MatchExecOpen(LineAt(lines, i))
          /\ current_section = None

\* C26: a noise line, and a parameter line read while no section context is open,
\* emit no record, register no section or route and leave the context, the module
\* and the attribute accumulator as they are; the cursor advances by one.
C26_NoiseIgnored ==
    [][AtNoise =>
          /\ i' = i + 1
          /\ file_data' = file_data
          /\ sections' = sections
          /\ sections_info' = sections_info
          /\ routes' = routes
          /\ current_section' = current_section
          /\ current_section_name' = current_section_name
          /\ section_module' = section_module
          /\ section_details' = section_details]_vars

\* 'Exec x', 'exec "y"' read outside a section, then '<Input a>' and the malformed
\* tag '<Input>': no record, and the context is still a
C26_Witness ==
    /\ pc = "parse"
    /\ i = 6
    /\ Len(lines) = 6
    /\ MatchParam(LineAt(lines, 0)).ok
    /\ MatchSection(LineAt(lines, 3)).ok
    /\ IsNoise(LineAt(lines, 5))
    /\ file_data = <<>>
    /\ current_section = sInput
    /\ current_section_name = <<"a">>

(***************************************************************************)
(* C27: <Exec> capture, the edge cases                                     *)
(***************************************************************************)

AtExecOpen == InParse /\ Branch(lines, i, current_section) = "exec"

\* C27: an <Exec> block captures the non-blank lines up to its </Exec>, or up to the
\* end of input when there is none (the loop then ends); it emits its one Exec
\* record if a section is open and a line was captured, and no record otherwise;
\* the context, its module, its attributes, the sections and the routes are left
\* as they are.
C27_ExecCaptureEdges ==
    [][AtExecOpen =>
          LET stop == FirstCursor(lines, i + 1, MatchExecClose)
              captured == NonBlank(lines, i + 1, stop, Verbatim)
          IN  /\ file_data' =
                    IF captured # <<>> /\ current_section # None
                    THEN Append(file_data,
                                [Section |-> current_section,
                                 Nom_Section |-> current_section_name,
                                 Parametre |-> sExec,
                                 Valeur |-> Join(captured, sNewline)])
                    ELSE file_data
              /\ i' = stop + 1
              /\ (\A j \in (i + 1)..(Len(lines) - 1) : ~MatchExecClose(LineAt(lines, j)))
                    => i' = Len(lines) + 1
              /\ current_section' = current_section
              /\ current_section_name' = current_section_name
              /\ section_module' = section_module
              /\ section_details' = section_details
              /\ sections' = sections
              /\ sections_info' = sections_info
              /\ routes' = routes]_vars

\* an <Exec> without </Exec> read in section a has captured 'y' and '<Input b>' up
\* to the end of input, after an <Exec> block read outside a section left no record
C27_Witness ==
    /\ pc = "parse"
    /\ i = Len(lines) + 1
    /\ MatchExecOpen(LineAt(lines, 0))
    /\ current_section_name = <<"a">>
    /\ Len(file_data) = 1
    /\ file_data[1].Nom_Section = <<"a">>
    /\ file_data[1].Valeur = <<"y", "\n", "<", "I", "n", "p", "u", "t", " ", "b", ">">>

(***************************************************************************)
(* C28: the two notions of an unconnected section                          *)
(***************************************************************************)

\* the sections with an empty connected_routes list
NoRouteSections ==
    {sections[k].k : k \in {j \in 1..Len(sections) : sections[j].v.connected_routes = <<>>}}

\* C28: after a document is parsed and analyzed, the sections with an empty
\* connected_routes list are the sections of unconnected_sections, and
\* get_flow_summary counts as many unconnected sections as the stats do.
C28_UnconnectedAgree ==
    pc = "done" =>
        /\ NoRouteSections = unconnected_sections
        /\ GetFlowSummary(routes, sections, flows).unconnected_sections
              = DictGet(returned[Len(returned)].stats, sUnconnected)

(***************************************************************************)
(* C30: the names of a flow's endpoints                                    *)
(***************************************************************************)

\* C30: every flow produced by analyze_flows has a non-empty source name and a
\* non-empty target name, whatever the path expressions of the routes.
C30_FlowNamesNonEmpty ==
    Analyzed =>
        \A k \in 1..Len(flows) : flows[k].source # <<>> /\ flows[k].target # <<>>

(***************************************************************************)
(* C29: the two parsers                                                    *)
(***************************************************************************)

\* no line of the document belongs to an Exec construct
NoExecConstruct(ls) ==
    /\ NoExec(ls)
    /\ \A k \in 0..(Len(ls) - 1) : ~MatchExecClose(LineAt(ls, k))

\* the records of parse_nxlog_config as (type, name, parameter, value)
ConfigTuples(config) ==
    [k \in 1..Len(config) |-> <<config[k].section_type, config[k].section_name,
                                config[k].parameter, config[k].value>>]

\* the records of parse_config_file as (type, name, parameter, value)
FileDataTuples(data) ==
    [k \in 1..Len(data) |-> <<data[k].Section, data[k].Nom_Section,
                              data[k].Parametre, data[k].Valeur>>]

\* the part of the agreement that holds: on a document without Exec construct the
\* two parsers give the same ordered records and register the same routes
C29_SameRecordsAndRoutes ==
    (pc = "done" /\ NoExecConstruct(lines)) =>
        /\ ConfigTuples(ParseNxlogConfig(lines).config) = FileDataTuples(file_data)
        /\ NxLoop(lines, 0, NxStart).routes = routes

\* C29: on a document without Exec construct parse_nxlog_config and parse_config_file
\* give the same ordered records and the same flow graph: the same sections keyed by
\* name with the tag as type, the same routes, the same flows and the same
\* unconnected set.
C29_ParsersAgree ==
    (pc = "done" /\ NoExecConstruct(lines)) =>
        LET r == ParseNxlogConfig(lines)
        IN  /\ ConfigTuples(r.config) = FileDataTuples(file_data)
            /\ NxLoop(lines, 0, NxStart).routes = routes
            /\ r.flows.sections = sections_info
            /\ r.flows.flows = flows
            /\ r.flows.unconnected = unconnected_sections

====
